---- MODULE Spec2Model ----
(***************************************************************************)
(* TradePulse: the paper-trading simulator (PaperTradeAgent), its          *)
(* Portfolio, and the signal-strength table.                               *)
(*                                                                         *)
(* Numbers.  Prices and cash are integers.  Signal prices are multiples    *)
(* of 100, so that entry * (1 +/- pct) is an exact integer for the         *)
(* percentages of the constructor (7 % target, 3 % stop).  Percentages     *)
(* are integers out of 100.  A bar's timestamp is its 0-based bar index    *)
(* (one bar per day, as in tests/make_df); None is NoneVal.                *)
(***************************************************************************)
EXTENDS Integers, Sequences, FiniteSets, TLC

\* ------------------------------------------------------------------ bounds
NBars == 3
MaxSignals == 3
MaxStrength == 1
MaxAlpha == 10
MaxCoord == 2
MaxCapitalUsed == 900
MaxRaw == 3
MaxDetBars == 6
MaxRuns == 1
MaxSizingStrength == 6
MaxOpens == 3
MaxRerunSignals == 2
MaxGapZones == 2
MaxEventBars == 5
MaxReuseBars == 5
MaxSonarBars == 8
MaxBatchFiles == 3

\* ------------------------------------------------------- program constants
TargetPct == 7
StopLossPct == 3
AllocationStep == 20
DefaultDarkAlphaThreshold == 4
InitialCapital == 1000

NoneVal == -1
OneDay == 1

Securities == {"A", "B"}
SignalTypes == {"buy", "sell"}

\* model/OutcomeType.py
OutcomeType == [NO_HIT |-> "no_hit", WIN |-> "win", LOSS |-> "loss", EXIT |-> "exit"]

\* The bars a series is drawn from: [High, Low, Close].  Against an entry at
\* 100 (long target 107, stop 97; short target 93, stop 103):
\*   Flat  101/99   reaches nothing
\*   Up    107/99   the long target exactly, and the short stop
\*   Crash 101/93   the long stop, and the short target exactly
\*   Wide  110/90   both the target and the stop of either side
\*   Rise  104/99   the short stop only
BarShapes ==
    { [High |-> 101, Low |-> 99, Close |-> 100],
      [High |-> 104, Low |-> 99, Close |-> 102],
      [High |-> 107, Low |-> 99, Close |-> 105],
      [High |-> 101, Low |-> 93, Close |-> 95],
      [High |-> 110, Low |-> 90, Close |-> 100] }

SignalPrices == {0, 100}

VARIABLES
    agent,               \* the PaperTradeAgent instance
    force_close_at_end,  \* ui/common.py: _FORCE_CLOSE_AT_END
    df,                  \* the OHLC series passed to execute_signals
    pc,                  \* where the caller / execute_signals stands
    last_date,           \* execute_signals: the date of the loop's last signal
    nsignals,            \* how many signals of the sorted list were taken
    sell_seen,           \* history: a sell signal was among those taken
    strength_seen,       \* history: a signal of positive strength was taken
    raised,              \* the exception that left the last call, or "none"
    fn                   \* the pure-function harness (strength table)

vars == <<agent, force_close_at_end, df, pc, last_date, nsignals, sell_seen, strength_seen,
          raised, fn>>

Min(a, b) == IF a <= b THEN a ELSE b
Max(a, b) == IF a >= b THEN a ELSE b

\* len(df) and the 0-based accessors df[...].iat[i], df.index[i]
DfLen(d) == Len(d)
High(d, i) == d[i + 1].High
Low(d, i) == d[i + 1].Low
Close(d, i) == d[i + 1].Close
DfIndex(d, i) == i

\* ------------------------------------------------- model/portfolio.py
\* A Position with the dataclass fields and, below them, the attributes the
\* agent attaches later.  exit_set: the exit_* / pnl / proceeds / outcome
\* attributes exist; entry_set: is_long and cash_before exist (hasattr).
Position(security, shares, entry_price, entry_date, entry_index, money_allocated, stop_loss, target, signal_strength) ==
    [ security |-> security, shares |-> shares, entry_price |-> entry_price,
      entry_date |-> entry_date, entry_index |-> entry_index,
      money_allocated |-> money_allocated, stop_loss |-> stop_loss,
      target |-> target, signal_strength |-> signal_strength,
      exit_set |-> FALSE, exit_idx |-> NoneVal, exit_date |-> NoneVal,
      exit_price |-> 0, pnl |-> 0, proceeds |-> 0, outcome |-> "unset",
      entry_set |-> FALSE, is_long |-> TRUE, cash_before |-> 0 ]

\* Portfolio(): positions is the dict in insertion order, one entry per key.
EmptyPortfolio == [positions |-> <<>>, total_capital_used |-> 0]

KeyIndex(positions, security) ==
    IF \E i \in 1..Len(positions) : positions[i].security = security
    THEN CHOOSE i \in 1..Len(positions) : positions[i].security = security
    ELSE 0

has_position(pf, security) == KeyIndex(pf.positions, security) # 0

get_position(pf, security) == pf.positions[KeyIndex(pf.positions, security)]

\* positions[position.security] = position: an existing key keeps its place
\* in the dict and gets the new value.
add_position(pf, position) ==
    LET k == KeyIndex(pf.positions, position.security)
    IN  [ positions |-> IF k = 0 THEN Append(pf.positions, position)
                        ELSE [pf.positions EXCEPT ![k] = position],
          total_capital_used |-> pf.total_capital_used + position.money_allocated ]

remove_position(pf, security) ==
    LET k == KeyIndex(pf.positions, security)
    IN  IF k = 0 THEN pf
        ELSE [ positions |-> SubSeq(pf.positions, 1, k - 1)
                             \o SubSeq(pf.positions, k + 1, Len(pf.positions)),
               total_capital_used |->
                   pf.total_capital_used - pf.positions[k].money_allocated ]

\* setattr on a Position object held by the portfolio
set_position(pf, position) ==
    [pf EXCEPT !.positions[KeyIndex(pf.positions, position.security)] = position]

\* ------------------------------------------- agent/paper_trade_agent.py
\* _reset_state
ResetState ==
    [ cash |-> InitialCapital, trades |-> <<>>, portfolio |-> EmptyPortfolio,
      winning_streak |-> 0, losing_streak |-> 0,
      max_winning_streak |-> 0, max_losing_streak |-> 0,
      total_wins |-> 0, total_losses |-> 0,
      final_pnl |-> 0, final_balance |-> InitialCapital ]

\* allocation_pct, in percent
allocation_pct(strength) ==
    IF strength <= 0 THEN 0 ELSE Min(AllocationStep * strength, 100)

\* utility/signal_util.py: is_long_signal, by its body: the enum's value is
\* 'buy', or the tag's text contains 'buy' or 'bull'.  The function and
\* check_position_exit keep a leading `self` parameter that the calls at
\* paper_trade_agent.py lines 127 and 133 do not pass; the model binds the
\* arguments to the parameters the bodies use, as TradeAgent's methods of
\* the same names do.
is_long_signal(signal_type) == signal_type \in {"buy", "bull", "bullish"}

\* _calculate_exit_prices: <<tp_price, sl_price>>
calculate_exit_prices(entry_price, is_long) ==
    IF is_long
    THEN << (entry_price * (100 + TargetPct)) \div 100,
            (entry_price * (100 - StopLossPct)) \div 100 >>
    ELSE << (entry_price * (100 - TargetPct)) \div 100,
            (entry_price * (100 + StopLossPct)) \div 100 >>

NoExit == [exit_price |-> NoneVal, exit_idx |-> NoneVal, outcome |-> OutcomeType.EXIT]

RECURSIVE ScanFrom_stop_first(_, _, _, _, _)
ScanFrom_stop_first(d, i, tp_price, sl_price, is_long) ==
    IF i >= DfLen(d) THEN NoExit
    ELSE IF is_long
    THEN IF Low(d, i) <= sl_price
         THEN [exit_price |-> sl_price, exit_idx |-> i, outcome |-> OutcomeType.LOSS]
         ELSE IF High(d, i) >= tp_price
         THEN [exit_price |-> tp_price, exit_idx |-> i, outcome |-> OutcomeType.WIN]
         ELSE ScanFrom_stop_first(d, i + 1, tp_price, sl_price, is_long)
    ELSE IF High(d, i) >= sl_price
         THEN [exit_price |-> sl_price, exit_idx |-> i, outcome |-> OutcomeType.LOSS]
         ELSE IF Low(d, i) <= tp_price
         THEN [exit_price |-> tp_price, exit_idx |-> i, outcome |-> OutcomeType.WIN]
         ELSE ScanFrom_stop_first(d, i + 1, tp_price, sl_price, is_long)

\* _simulate_exit, the loop from bar i on
RECURSIVE ScanFrom(_, _, _, _, _)
ScanFrom(d, i, tp_price, sl_price, is_long) ==
    IF i >= DfLen(d) THEN NoExit
    ELSE IF is_long
    THEN IF High(d, i) >= tp_price
         THEN [exit_price |-> tp_price, exit_idx |-> i, outcome |-> OutcomeType.WIN]
         ELSE IF Low(d, i) <= sl_price
         THEN [exit_price |-> sl_price, exit_idx |-> i, outcome |-> OutcomeType.LOSS]
         ELSE ScanFrom(d, i + 1, tp_price, sl_price, is_long)
    ELSE IF Low(d, i) <= tp_price
         THEN [exit_price |-> tp_price, exit_idx |-> i, outcome |-> OutcomeType.WIN]
         ELSE IF High(d, i) >= sl_price
         THEN [exit_price |-> sl_price, exit_idx |-> i, outcome |-> OutcomeType.LOSS]
         ELSE ScanFrom(d, i + 1, tp_price, sl_price, is_long)

simulate_exit_from_entry(d, entry_idx, tp_price, sl_price, is_long) ==
    IF entry_idx = NoneVal \/ entry_idx >= DfLen(d) - 1 THEN NoExit
    ELSE ScanFrom(d, entry_idx, tp_price, sl_price, is_long)

simulate_exit_last_close(d, entry_idx, tp_price, sl_price, is_long) ==
    IF entry_idx = NoneVal \/ entry_idx >= DfLen(d) - 1 THEN NoExit
    ELSE IF ScanFrom(d, entry_idx + 1, tp_price, sl_price, is_long) = NoExit
    THEN [exit_price |-> Close(d, DfLen(d) - 1), exit_idx |-> DfLen(d) - 1,
          outcome |-> OutcomeType.LOSS]
    ELSE ScanFrom(d, entry_idx + 1, tp_price, sl_price, is_long)

\* _simulate_exit
simulate_exit(d, entry_idx, tp_price, sl_price, is_long) ==
    IF entry_idx = NoneVal \/ entry_idx >= DfLen(d) - 1 THEN NoExit
    ELSE ScanFrom(d, entry_idx + 1, tp_price, sl_price, is_long)

\* _update_streaks
update_streaks_zero_wins(a, pnl) ==
    IF pnl >= 0
    THEN [a EXCEPT !.winning_streak = @ + 1, !.losing_streak = 0,
                   !.max_winning_streak = Max(@, a.winning_streak + 1),
                   !.total_wins = @ + 1]
    ELSE [a EXCEPT !.losing_streak = @ + 1, !.winning_streak = 0,
                   !.max_losing_streak = Max(@, a.losing_streak + 1),
                   !.total_losses = @ + 1]

\* _update_streaks
update_streaks(a, pnl) ==
    IF pnl > 0
    THEN [a EXCEPT !.winning_streak = @ + 1, !.losing_streak = 0,
                   !.max_winning_streak = Max(@, a.winning_streak + 1),
                   !.total_wins = @ + 1]
    ELSE [a EXCEPT !.losing_streak = @ + 1, !.winning_streak = 0,
                   !.max_losing_streak = Max(@, a.losing_streak + 1),
                   !.total_losses = @ + 1]

position_shares_uncapped(cash, entry_price, is_long, strength) ==
    (cash * AllocationStep * strength) \div (100 * entry_price)

\* _open_position, lines 152-171: the number of shares, 0 when none is opened
position_shares(cash, entry_price, is_long, strength) ==
    LET first == (cash * allocation_pct(strength)) \div (100 * entry_price)
    IN  IF is_long
        THEN IF cash <= 0 THEN 0
             ELSE IF first * entry_price > cash THEN cash \div entry_price
             ELSE first
        ELSE first

\* _open_position, line 195: an exit the scan found is kept only when it is
\* strictly after the entry bar and a win or a loss
exit_accepted(exit, entry_idx) ==
    /\ exit.exit_idx # NoneVal
    /\ entry_idx # NoneVal
    /\ exit.exit_idx > entry_idx
    /\ exit.outcome \in {OutcomeType.WIN, OutcomeType.LOSS}

\* _open_position, line 220
exit_date_of(d, exit_idx) ==
    IF exit_idx < DfLen(d) THEN DfIndex(d, exit_idx) ELSE NoneVal

\* _open_position
open_position(a, d, sig, entry_price, is_long, strength, security) ==
    LET shares == position_shares(a.cash, entry_price, is_long, strength)
        cost == shares * entry_price
        prices == calculate_exit_prices(entry_price, is_long)
        tp_price == prices[1]
        sl_price == prices[2]
        cash_before == a.cash
        cash_after == IF is_long THEN a.cash - cost ELSE a.cash
        exit == simulate_exit(d, sig.index, tp_price, sl_price, is_long)
        position == Position(security, shares, entry_price, sig.date, sig.index,
                             cost, sl_price, tp_price, strength)
        pnl == IF is_long THEN shares * (exit.exit_price - entry_price)
               ELSE shares * (entry_price - exit.exit_price)
        proceeds == IF is_long THEN shares * exit.exit_price ELSE 0
        resolved == [position EXCEPT
                        !.exit_set = TRUE, !.exit_idx = exit.exit_idx,
                        !.exit_date = exit_date_of(d, exit.exit_idx),
                        !.exit_price = exit.exit_price, !.pnl = pnl,
                        !.proceeds = proceeds, !.outcome = exit.outcome,
                        !.entry_set = TRUE, !.is_long = is_long,
                        !.cash_before = cash_before]
    IN  IF shares <= 0 THEN a
        ELSE [a EXCEPT !.cash = cash_after,
                       !.portfolio = add_position(@,
                           IF exit_accepted(exit, sig.index) THEN resolved
                           ELSE position)]

execute_single_trade_adds(a, d, sig) ==
    IF sig.signalStrength <= 0 THEN a
    ELSE IF sig.price <= 0 THEN a
    ELSE open_position(a, d, sig, sig.price, is_long_signal(sig.type),
                       sig.signalStrength, sig.symbol)

\* _execute_single_trade.  check_position_exit (utility/signal_util.py)
\* returns None, so a signal for a held security changes nothing.
execute_single_trade(a, d, sig) ==
    IF sig.signalStrength <= 0 THEN a
    ELSE IF sig.price <= 0 THEN a
    ELSE IF has_position(a.portfolio, sig.symbol) THEN a
    ELSE open_position(a, d, sig, sig.price, is_long_signal(sig.type),
                       sig.signalStrength, sig.symbol)

exit_due_strict(position, current_date) ==
    /\ position.exit_set
    /\ position.exit_date # NoneVal
    /\ (current_date = NoneVal \/ position.exit_date < current_date)

exit_due_dated_only(position, current_date) ==
    /\ position.exit_set
    /\ position.exit_date # NoneVal
    /\ current_date # NoneVal
    /\ position.exit_date <= current_date

\* _process_pending_exits, lines 304-308: is the position due at current_date
exit_due(position, current_date) ==
    /\ position.exit_set
    /\ position.exit_date # NoneVal
    /\ (current_date = NoneVal \/ position.exit_date <= current_date)

\* list.sort(key=exit_date): stable insertion of p into a sorted list
RECURSIVE InsertByExitDate(_, _)
InsertByExitDate(sorted, p) ==
    IF sorted = <<>> THEN <<p>>
    ELSE IF sorted[Len(sorted)].exit_date <= p.exit_date THEN Append(sorted, p)
    ELSE Append(InsertByExitDate(SubSeq(sorted, 1, Len(sorted) - 1), p),
                sorted[Len(sorted)])

RECURSIVE SortByExitDate(_)
SortByExitDate(ps) ==
    IF ps = <<>> THEN <<>>
    ELSE InsertByExitDate(SortByExitDate(SubSeq(ps, 1, Len(ps) - 1)), ps[Len(ps)])

\* _process_pending_exits, lines 316-339: the defensive adjustment of an exit
\* date that does not follow the entry date
adjust_exit(position, d) ==
    IF /\ position.exit_date # NoneVal
       /\ position.entry_date # NoneVal
       /\ position.exit_date <= position.entry_date
    THEN IF position.entry_index = NoneVal THEN position
         ELSE IF position.entry_index + 1 < DfLen(d)
         THEN [position EXCEPT
                  !.exit_idx = position.entry_index + 1,
                  !.exit_date = DfIndex(d, position.entry_index + 1),
                  !.exit_price = Close(d, position.entry_index + 1)]
         ELSE [position EXCEPT !.exit_date = position.entry_date + OneDay]
    ELSE position

Trade_dates_swapped(position, cash_after) ==
    [ entry_index |-> position.entry_index, entry_date |-> position.exit_date,
      exit_date |-> position.entry_date,
      side |-> IF (~position.entry_set) \/ position.is_long THEN "buy" ELSE "sell",
      entry_price |-> position.entry_price, exit_price |-> position.exit_price,
      shares |-> position.shares, pnl |-> position.pnl,
      security |-> position.security, outcome |-> position.outcome,
      signalStrength |-> position.signal_strength,
      cash_before |-> position.cash_before, cash_after |-> cash_after ]

\* Trade(...), lines 351-365, from a position and the cash after the credit
Trade(position, cash_after) ==
    [ entry_index |-> position.entry_index, entry_date |-> position.entry_date,
      exit_date |-> position.exit_date,
      side |-> IF (~position.entry_set) \/ position.is_long THEN "buy" ELSE "sell",
      entry_price |-> position.entry_price, exit_price |-> position.exit_price,
      shares |-> position.shares, pnl |-> position.pnl,
      security |-> position.security, outcome |-> position.outcome,
      signalStrength |-> position.signal_strength,
      cash_before |-> position.cash_before, cash_after |-> cash_after ]

\* What building the Trade raises: SignalStrength(n) has members 0..5 only
\* (model/trade.py), and cash_before exists only on a position whose scan
\* found an exit (line 226).
trade_error(position) ==
    IF position.signal_strength \notin 0..5 THEN "ValueError"
    ELSE IF ~position.entry_set THEN "AttributeError"
    ELSE "none"

credit_exit_pnl(cash, position) ==
    IF position.entry_set /\ position.is_long THEN cash + position.pnl
    ELSE cash

credit_exit_both_sides(cash, position) ==
    IF position.entry_set THEN cash + position.shares * position.exit_price
    ELSE cash

\* _process_pending_exits, lines 341-344: the cash after the exit's credit
credit_exit(cash, position) ==
    IF position.entry_set /\ position.is_long THEN cash + position.proceeds
    ELSE cash

\* _process_pending_exits, lines 314-369: one pass of the loop body, on a
\* call state [agent, raised]
finalize_exit(st, p0, d) ==
    LET position == adjust_exit(p0, d)
        a0 == st.agent
        a1 == [a0 EXCEPT !.portfolio = set_position(@, position),
                         !.cash = credit_exit(@, position)]
        a2 == update_streaks(a1, position.pnl)
        err == trade_error(position)
    IN  IF err # "none" THEN [agent |-> a2, raised |-> err]
        ELSE [ agent |-> [a2 EXCEPT
                             !.trades = Append(@, Trade(position, a2.cash)),
                             !.portfolio = remove_position(@, position.security)],
               raised |-> "none" ]

RECURSIVE FinalizeAll(_, _, _)
FinalizeAll(st, due, d) ==
    IF due = <<>> \/ st.raised # "none" THEN st
    ELSE FinalizeAll(finalize_exit(st, due[1], d), SubSeq(due, 2, Len(due)), d)

process_pending_exits_unsorted(a, d, current_date) ==
    LET due == SelectSeq(a.portfolio.positions,
                         LAMBDA p : exit_due(p, current_date))
    IN  FinalizeAll([agent |-> a, raised |-> "none"], due, d)

\* _process_pending_exits: [agent, raised]
process_pending_exits(a, d, current_date) ==
    LET due == SelectSeq(a.portfolio.positions,
                         LAMBDA p : exit_due(p, current_date))
    IN  FinalizeAll([agent |-> a, raised |-> "none"], SortByExitDate(due), d)

\* execute_signals, lines 93-104: the exit synthesized at the last bar for a
\* position that has none
forced_exit(position, d) ==
    IF position.exit_set /\ position.exit_idx # NoneVal THEN position
    ELSE LET last == DfLen(d) - 1
             exit_price == Close(d, last)
             long == (~position.entry_set) \/ position.is_long
         IN  [position EXCEPT
                 !.exit_set = TRUE, !.exit_idx = last,
                 !.exit_date = DfIndex(d, last), !.exit_price = exit_price,
                 !.pnl = IF long THEN position.shares * (exit_price - position.entry_price)
                         ELSE position.shares * (position.entry_price - exit_price),
                 !.proceeds = IF long THEN position.shares * exit_price ELSE 0,
                 !.outcome = OutcomeType.EXIT]

\* execute_signals, lines 86-108: the forced close; what it raises is caught
\* and logged, so only the agent comes back
force_close(a, d) ==
    IF DfLen(d) = 0 THEN a
    ELSE LET marked == [a EXCEPT !.portfolio.positions =
                            [i \in 1..Len(@) |-> forced_exit(@[i], d)]]
         IN  process_pending_exits(marked, d, DfIndex(d, DfLen(d) - 1)).agent

RECURSIVE SumExitValue(_)
SumExitValue(ps) ==
    IF ps = <<>> THEN 0
    ELSE SumExitValue(SubSeq(ps, 1, Len(ps) - 1))
         + (IF ps[Len(ps)].exit_set THEN ps[Len(ps)].proceeds
            ELSE ps[Len(ps)].money_allocated)

final_results_at_exit_value(a) ==
    [a EXCEPT !.final_balance = a.cash + SumExitValue(a.portfolio.positions),
              !.final_pnl = a.cash + SumExitValue(a.portfolio.positions) - InitialCapital]

final_results_cash_only(a) ==
    [a EXCEPT !.final_balance = a.cash, !.final_pnl = a.cash - InitialCapital]

\* execute_signals, lines 111-112
final_results(a) ==
    LET balance == a.cash + a.portfolio.total_capital_used
    IN  [a EXCEPT !.final_balance = balance,
                  !.final_pnl = balance - InitialCapital]

\* get_summary.  win_rate is the quotient num / den, kept as the pair
get_summary(a) ==
    LET num_trades == Len(a.trades)
    IN  [ initial_capital |-> InitialCapital,
          final_balance |-> a.final_balance, final_pnl |-> a.final_pnl,
          num_trades |-> num_trades, wins |-> a.total_wins, losses |-> a.total_losses,
          win_rate |-> IF num_trades > 0
                       THEN [num |-> a.total_wins * 100, den |-> num_trades]
                       ELSE [num |-> 0, den |-> 1],
          current_winning_streak |-> a.winning_streak,
          current_losing_streak |-> a.losing_streak,
          max_winning_streak |-> a.max_winning_streak,
          max_losing_streak |-> a.max_losing_streak ]

\* execute_signals, lines 75-83: one pass of the loop, the due exits and then
\* the signal: [agent, raised]
loop_body(a, d, sig) ==
    LET exits == process_pending_exits(a, d, sig.date)
    IN  IF exits.raised # "none" THEN exits
        ELSE [agent |-> execute_single_trade(exits.agent, d, sig), raised |-> "none"]

\* pd.Timestamp.min: earlier than every date of the model
TimestampMin == -1

\* sorted(key = date, None as Timestamp.min)
SortKey(date) == IF date = NoneVal THEN TimestampMin ELSE date

reset_state_keeps_ledger(a) ==
    [ResetState EXCEPT !.trades = a.trades, !.total_wins = a.total_wins,
                       !.total_losses = a.total_losses]

\* _reset_state: nothing of the agent's earlier state is read
reset_state(a) == ResetState

\* sorted(enhanced_signals, key = date): stable insertion of s
RECURSIVE InsertByDate(_, _)
InsertByDate(sorted, s) ==
    IF sorted = <<>> THEN <<s>>
    ELSE IF SortKey(sorted[Len(sorted)].date) <= SortKey(s.date) THEN Append(sorted, s)
    ELSE Append(InsertByDate(SubSeq(sorted, 1, Len(sorted) - 1), s), sorted[Len(sorted)])

RECURSIVE SortByDate(_)
SortByDate(signals) ==
    IF signals = <<>> THEN <<>>
    ELSE InsertByDate(SortByDate(SubSeq(signals, 1, Len(signals) - 1)),
                      signals[Len(signals)])

\* execute_signals, lines 75-83: the loop over the sorted signals; an
\* exception ends it
RECURSIVE RunLoop(_, _, _)
RunLoop(st, d, signals) ==
    IF signals = <<>> \/ st.raised # "none" THEN st
    ELSE RunLoop(loop_body(st.agent, d, signals[1]), d, Tail(signals))

\* execute_signals(df, enhanced_signals) as one call: [agent, raised]
execute_signals(a, d, enhanced_signals, force) ==
    LET st == RunLoop([agent |-> reset_state(a), raised |-> "none"], d,
                      SortByDate(enhanced_signals))
    IN  IF st.raised # "none" THEN st
        ELSE [ agent |-> final_results(IF force THEN force_close(st.agent, d)
                                       ELSE st.agent),
               raised |-> "none" ]

\* A price that is not a number, and one that is infinite
NaN == -2
Inf == -3

\* What _execute_single_trade raises on a signal a caller built by hand:
\* None <= 0 at line 123, int(nan) at line 160 or 167
single_trade_error(a, sig) ==
    IF sig.signalStrength <= 0 THEN "none"
    ELSE IF sig.price = NoneVal THEN "TypeError"
    ELSE IF /\ sig.price = NaN
            /\ ~has_position(a.portfolio, sig.symbol)
            /\ ~(is_long_signal(sig.type) /\ a.cash <= 0)
    THEN "ValueError"
    ELSE "none"

\* _execute_single_trade on any signal: [agent, raised].  nan <= 0 and
\* inf <= 0 are False; a held security returns None; alloc // inf is 0
\* shares.  A bar index of None goes through _open_position.
execute_single_trade_raising(a, d, sig) ==
    IF single_trade_error(a, sig) # "none"
    THEN [agent |-> a, raised |-> single_trade_error(a, sig)]
    ELSE IF sig.signalStrength > 0 /\ sig.price \in {NaN, Inf}
    THEN [agent |-> a, raised |-> "none"]
    ELSE [agent |-> execute_single_trade(a, d, sig), raised |-> "none"]

\* execute_signals, lines 75-83, on any signal
loop_body_raising(a, d, sig) ==
    LET exits == process_pending_exits(a, d, sig.date)
    IN  IF exits.raised # "none" THEN exits
        ELSE execute_single_trade_raising(exits.agent, d, sig)

\* ------------------------------------------- agent/signal_strength.py
calculate_signal_strength_strict(inside_fvg, inside_sonar, fvg_alpha, dark_alpha_threshold) ==
    IF inside_fvg /\ ~inside_sonar
    THEN IF fvg_alpha # NoneVal /\ fvg_alpha > dark_alpha_threshold THEN 2 ELSE 1
    ELSE IF inside_fvg /\ inside_sonar
    THEN IF fvg_alpha # NoneVal /\ fvg_alpha > dark_alpha_threshold THEN 4 ELSE 3
    ELSE IF inside_sonar /\ ~inside_fvg THEN 1
    ELSE 0

\* calculate_signal_strength; alphas and the threshold are in tenths
calculate_signal_strength(inside_fvg, inside_sonar, fvg_alpha, dark_alpha_threshold) ==
    IF inside_fvg /\ ~inside_sonar
    THEN IF fvg_alpha # NoneVal /\ fvg_alpha >= dark_alpha_threshold THEN 2 ELSE 1
    ELSE IF inside_fvg /\ inside_sonar
    THEN IF fvg_alpha # NoneVal /\ fvg_alpha >= dark_alpha_threshold THEN 4 ELSE 3
    ELSE IF inside_sonar /\ ~inside_fvg THEN 1
    ELSE 0

\* ---------------------------------- model/box.py, agent/signal_processor.py
\* Box(left, right, top, bottom, ...): the four bounds of a zone
Box(left, right, top, bottom) ==
    [left |-> left, right |-> right, top |-> top, bottom |-> bottom]

contains_point_open_right(box, idx, price) ==
    LET idx_ok == (idx >= box.left) /\ (idx < box.right)
        price_ok == (price <= box.top) /\ (price >= box.bottom)
    IN  idx_ok /\ price_ok

\* Box.contains_point
contains_point(box, idx, price) ==
    LET idx_ok == (idx >= box.left) /\ (idx <= box.right)
        price_ok == (price <= box.top) /\ (price >= box.bottom)
    IN  idx_ok /\ price_ok

\* Box.to_dict, the keys point_in_box reads
to_dict(box) ==
    [left |-> box.left, right |-> box.right, top |-> box.top, bottom |-> box.bottom]

\* dict.get(key, default)
DictGet(dict, key, default) == IF key \in DOMAIN dict THEN dict[key] ELSE default

\* box.get('left', -9999), box.get('right', 9999)
DefaultLeft == -9999
DefaultRight == 9999

\* point_in_box, for a box that is not None
point_in_box(idx, price, box) ==
    LET left == DictGet(box, "left", DefaultLeft)
        right == DictGet(box, "right", DefaultRight)
        top == DictGet(box, "top", NoneVal)
        bottom == DictGet(box, "bottom", NoneVal)
        idx_ok == (idx >= left) /\ (idx <= right)
        price_ok == top # NoneVal /\ bottom # NoneVal /\ price <= top /\ price >= bottom
    IN  idx_ok /\ price_ok

\* ------------------- agent/signal_processor.py, agent/signal_generator.py
\* The type tags of raw signals: the gap detector's 'bullish' / 'bearish'
\* (strategy/fvgorderblocks.py lines 190, 234) and the momentum detector's
\* SignalType.BUY / SELL (strategy/sonarlaplaceorderblocks.py lines 214, 245)
TypeTags == {"bullish", "bearish", "buy", "sell"}

\* str(typ): distinct tags have distinct texts
Str(typ) == typ

\* is_buy_signal / is_sell_signal: the tag's text contains 'bull' or 'buy' /
\* 'bear' or 'sell'
is_buy_signal(typ) == typ \in {"bullish", "buy"}
is_sell_signal(typ) == typ \in {"bearish", "sell"}

\* normalize_raw_signal, for a signal object with an index: <<>> for None,
\* <<dict>> otherwise
normalize_raw_signal(s) ==
    IF s.price = NoneVal THEN <<>>
    ELSE <<[idx |-> s.index, price |-> s.price, typ |-> s.type]>>

\* round(price, 6), prices being in units of 1e-7: to the nearest multiple of
\* ten, a tie to the even one
Round6(price) ==
    LET r == price % 10
        down == price - r
    IN  IF r < 5 THEN down
        ELSE IF r > 5 THEN down + 10
        ELSE IF (down \div 10) % 2 = 0 THEN down ELSE down + 10

\* _process_raw_signals, line 104: the key of the seen set
DedupKey(n) == <<n.idx, Round6(n.price), Str(n.typ)>>

\* A zone with the alpha the gap detector gives it
BoxWithAlpha(left, right, top, bottom, alpha) ==
    [left |-> left, right |-> right, top |-> top, bottom |-> bottom, alpha |-> alpha]

\* agent/signal_strength.py, check_fvg_inclusion: <<inside_fvg, fvg_alpha>> of
\* the first box of the list that contains the point
RECURSIVE check_fvg_inclusion(_, _, _)
check_fvg_inclusion(idx, price, boxes) ==
    IF boxes = <<>> THEN <<FALSE, NoneVal>>
    ELSE IF contains_point(boxes[1], idx, price) THEN <<TRUE, boxes[1].alpha>>
    ELSE check_fvg_inclusion(idx, price, Tail(boxes))

\* agent/signal_strength.py, check_sonar_inclusion
check_sonar_inclusion(idx, price, boxes) ==
    \E k \in 1..Len(boxes) : contains_point(boxes[k], idx, price)

\* _get_date_from_index
get_date_from_index(d, idx) == IF DfLen(d) > idx THEN DfIndex(d, idx) ELSE NoneVal

enhance_both_directions(n, d, symbol, zones) ==
    LET fvg == check_fvg_inclusion(n.idx, n.price, zones.bull_boxes \o zones.bear_boxes)
        inside_sonar == check_sonar_inclusion(n.idx, n.price,
                                              zones.long_boxes \o zones.short_boxes)
    IN  [ index |-> n.idx, price |-> n.price, date |-> get_date_from_index(d, n.idx),
          type |-> n.typ, symbol |-> symbol,
          inside_fvg |-> fvg[1], inside_sonar |-> inside_sonar, fvg_alpha |-> fvg[2],
          signalStrength |-> calculate_signal_strength(fvg[1], inside_sonar, fvg[2],
                                                       DefaultDarkAlphaThreshold) ]

\* _process_raw_signals, lines 109-137: the enhanced signal of a normalized
\* raw signal, against the detectors' zone lists
enhance(n, d, symbol, zones) ==
    LET is_buy == is_buy_signal(n.typ)
        fvg == check_fvg_inclusion(n.idx, n.price,
                   IF is_buy THEN zones.bull_boxes ELSE zones.bear_boxes)
        inside_sonar == check_sonar_inclusion(n.idx, n.price,
                   IF is_buy THEN zones.long_boxes ELSE zones.short_boxes)
    IN  [ index |-> n.idx, price |-> n.price, date |-> get_date_from_index(d, n.idx),
          type |-> n.typ, symbol |-> symbol,
          inside_fvg |-> fvg[1], inside_sonar |-> inside_sonar, fvg_alpha |-> fvg[2],
          signalStrength |-> calculate_signal_strength(fvg[1], inside_sonar, fvg[2],
                                                       DefaultDarkAlphaThreshold) ]

\* _process_raw_signals, the loop from raw signal k on, with the enhanced
\* list and the seen set built so far
RECURSIVE ProcessFrom(_, _, _, _, _, _, _)
ProcessFrom(raw, k, enhanced, seen, d, symbol, zones) ==
    IF k > Len(raw) THEN enhanced
    ELSE LET normalized == normalize_raw_signal(raw[k])
         IN  IF normalized = <<>>
             THEN ProcessFrom(raw, k + 1, enhanced, seen, d, symbol, zones)
             ELSE IF DedupKey(normalized[1]) \in seen
             THEN ProcessFrom(raw, k + 1, enhanced, seen, d, symbol, zones)
             ELSE ProcessFrom(raw, k + 1,
                              Append(enhanced, enhance(normalized[1], d, symbol, zones)),
                              seen \cup {DedupKey(normalized[1])}, d, symbol, zones)

\* _process_raw_signals
process_raw_signals(raw, d, symbol, zones) ==
    ProcessFrom(raw, 1, <<>>, {}, d, symbol, zones)

\* ------------------------------------------ strategy/fvgorderblocks.py
\* Detector series are bars [Open, High, Low, Close] whose prices are
\* multiples of 420, so that the mean of up to seven true ranges is an
\* integer.
Open(d, i) == d[i + 1].Open

Abs(x) == IF x < 0 THEN -x ELSE x

\* utility/utility.py, atr_series: the true range of bar i
TrueRange(d, i) ==
    IF i = 0 THEN High(d, 0) - Low(d, 0)
    ELSE Max(High(d, i) - Low(d, i),
             Max(Abs(High(d, i) - Close(d, i - 1)), Abs(Low(d, i) - Close(d, i - 1))))

RECURSIVE SumTrueRange(_, _)
SumTrueRange(d, i) == IF i < 0 THEN 0 ELSE TrueRange(d, i) + SumTrueRange(d, i - 1)

\* atr_series(df, period=200).iat[i]: rolling(200, min_periods=1).mean(), on
\* a series of fewer than 200 bars the mean of the true ranges up to bar i
Atr(d, i) == SumTrueRange(d, i) \div (i + 1)

\* A quotient num / den with den > 0, and its order
Frac(num, den) == [num |-> num, den |-> den]

RECURSIVE GCD(_, _)
GCD(a, b) == IF b = 0 THEN a ELSE GCD(b, a % b)

\* x / y for y # 0, as a quotient in lowest terms with a positive divisor
Quotient(x, y) ==
    LET g == GCD(Abs(x), Abs(y))
    IN  IF y < 0 THEN Frac((-x) \div g, (-y) \div g) ELSE Frac(x \div g, y \div g)

\* x < y, compared in lowest terms
FracLess(x, y) ==
    LET a == Quotient(x.num, x.den)
        b == Quotient(y.num, y.den)
    IN  a.num * b.den < b.num * a.den

\* filt_up.iat[i], filt_dn.iat[i] for i >= 2, in percent
FiltUp(d, i) == Frac((Low(d, i) - High(d, i - 2)) * 100, Low(d, i))
FiltDn(d, i) == Frac((Low(d, i - 2) - High(d, i)) * 100, Low(d, i - 2))

\* rolling(2000, min_periods=1).max() of a filter up to bar i >= 2: the
\* values of bars 0 and 1 are NaN and are skipped
RECURSIVE MaxUp(_, _)
MaxUp(d, i) ==
    IF i = 2 THEN FiltUp(d, 2)
    ELSE IF FracLess(MaxUp(d, i - 1), FiltUp(d, i)) THEN FiltUp(d, i) ELSE MaxUp(d, i - 1)

RECURSIVE MaxDn(_, _)
MaxDn(d, i) ==
    IF i = 2 THEN FiltDn(d, 2)
    ELSE IF FracLess(MaxDn(d, i - 1), FiltDn(d, i)) THEN FiltDn(d, i) ELSE MaxDn(d, i - 1)

\* clamp(0.15 + 0.5 * (p_norm if p_norm > 0 else 0), 0.06, 0.7) for
\* p_norm = percent / (max if max != 0 else 1.0), as a quotient
BoxAlpha(percent, max) ==
    LET a == Quotient(percent.num, percent.den)
        m == Quotient(max.num, max.den)
        p_norm == IF m.num # 0 THEN Quotient(a.num * m.den, a.den * m.num) ELSE a
        pp == p_norm.num
        qq == p_norm.den
        raw == IF pp > 0 THEN Frac(30 * qq + 100 * pp, 200 * qq) ELSE Frac(15, 100)
    IN  IF FracLess(raw, Frac(6, 100)) THEN Frac(6, 100)
        ELSE IF FracLess(Frac(70, 100), raw) THEN Frac(70, 100)
        ELSE raw

\* FVGOrderBlocks(): the constructor's defaults
DefaultFvgConfig ==
    [ filter_gap_x2 |-> 1, show_imb |-> TRUE, box_amount |-> 6,
      show_broken |-> FALSE, show_signal |-> FALSE, lookback |-> 2000 ]

NewFvg == [bull_boxes |-> <<>>, bear_boxes |-> <<>>, temp_boxes |-> <<>>, signals |-> <<>>]

\* run, lines 87-104: isBull_gap, isBear_gap at bar idx
IsBullGap(d, idx, n, cfg) ==
    /\ (n - 1 - idx) < cfg.lookback
    /\ idx >= 2
    /\ High(d, idx - 2) < Low(d, idx)
    /\ High(d, idx - 2) < High(d, idx - 1)
    /\ Low(d, idx - 2) < Low(d, idx)
    /\ FiltUp(d, idx).num * 2 > cfg.filter_gap_x2 * FiltUp(d, idx).den

IsBearGap(d, idx, n, cfg) ==
    /\ (n - 1 - idx) < cfg.lookback
    /\ idx >= 2
    /\ Low(d, idx - 2) > High(d, idx)
    /\ Low(d, idx - 2) > Low(d, idx - 1)
    /\ High(d, idx - 2) > High(d, idx)
    /\ FiltDn(d, idx).num * 2 > cfg.filter_gap_x2 * FiltDn(d, idx).den

\* check_temp_bullish_boxes / check_temp_bearish_boxes
TempBox(d, idx, n, top_v, bottom_v, type, percent) ==
    [ left |-> idx - 1, right |-> Min(idx + 5, n - 1),
      top |-> Max(top_v, bottom_v), bottom |-> Min(top_v, bottom_v),
      type |-> type, percent |-> percent, alpha |-> Frac(12, 100) ]

BullBox_above(d, idx, n) ==
    [ left |-> idx - 1, right |-> n - 1,
      top |-> High(d, idx - 2), bottom |-> High(d, idx - 2) + Atr(d, idx),
      type |-> "bull", percent |-> FiltUp(d, idx),
      alpha |-> BoxAlpha(FiltUp(d, idx), MaxUp(d, idx)), broken |-> FALSE ]

\* check_bullish_boxes: the permanent zone of a bullish gap at bar idx
BullBox(d, idx, n) ==
    [ left |-> idx - 1, right |-> n - 1,
      top |-> High(d, idx - 2), bottom |-> High(d, idx - 2) - Atr(d, idx),
      type |-> "bull", percent |-> FiltUp(d, idx),
      alpha |-> BoxAlpha(FiltUp(d, idx), MaxUp(d, idx)), broken |-> FALSE ]

\* check_bearish_boxes
BearBox(d, idx, n) ==
    [ left |-> idx - 1, right |-> n - 1,
      top |-> Low(d, idx - 2) + Atr(d, idx), bottom |-> Low(d, idx - 2),
      type |-> "bear", percent |-> FiltDn(d, idx),
      alpha |-> BoxAlpha(FiltDn(d, idx), MaxDn(d, idx)), broken |-> FALSE ]

\* [b for i, b in enumerate(boxes) if i not in indices], indices 1-based
RECURSIVE DropIndices(_, _, _)
DropIndices(boxes, indices, i) ==
    IF i > Len(boxes) THEN <<>>
    ELSE (IF i \in indices THEN <<>> ELSE <<boxes[i]>>) \o DropIndices(boxes, indices, i + 1)

\* The touch signal of strategy/signal.py
TouchSignal(index, price, type) == [index |-> index, price |-> price, type |-> type]

BreakAndSignalBull_keeps_broken(boxes, signals, d, idx, isBull_gap, cfg) ==
    LET broken == {i \in 1..Len(boxes) : High(d, idx) < boxes[i].bottom}
        marked == [i \in 1..Len(boxes) |->
                      IF i \in broken THEN [boxes[i] EXCEPT !.broken = TRUE] ELSE boxes[i]]
        touched == IF cfg.show_signal /\ idx >= 1
                   THEN SelectSeq(boxes, LAMBDA b :
                            /\ Low(d, idx) > b.top /\ b.top >= Low(d, idx - 1)
                            /\ ~isBull_gap)
                   ELSE <<>>
        emitted == [k \in 1..Len(touched) |->
                       TouchSignal(idx - 1, Low(d, idx - 1), "bullish")]
    IN  << marked, signals \o emitted >>

\* remove_broken_and_signal_bull_boxes: <<bull_boxes, signals>>
BreakAndSignalBull(boxes, signals, d, idx, isBull_gap, cfg) ==
    LET broken == {i \in 1..Len(boxes) : High(d, idx) < boxes[i].bottom}
        marked == [i \in 1..Len(boxes) |->
                      IF i \in broken THEN [boxes[i] EXCEPT !.broken = TRUE] ELSE boxes[i]]
        touched == IF cfg.show_signal /\ idx >= 1
                   THEN SelectSeq(boxes, LAMBDA b :
                            /\ Low(d, idx) > b.top /\ b.top >= Low(d, idx - 1)
                            /\ ~isBull_gap)
                   ELSE <<>>
        emitted == [k \in 1..Len(touched) |->
                       TouchSignal(idx - 1, Low(d, idx - 1), "bullish")]
    IN  << IF cfg.show_broken THEN marked ELSE DropIndices(marked, broken, 1),
           signals \o emitted >>

BreakAndSignalBear_always_signals(boxes, signals, d, idx, isBear_gap, cfg) ==
    LET broken == {i \in 1..Len(boxes) : Low(d, idx) > boxes[i].top}
        marked == [i \in 1..Len(boxes) |->
                      IF i \in broken THEN [boxes[i] EXCEPT !.broken = TRUE] ELSE boxes[i]]
        touched == IF idx >= 1
                   THEN SelectSeq(boxes, LAMBDA b :
                            /\ High(d, idx) < b.bottom /\ b.bottom <= High(d, idx - 1)
                            /\ ~isBear_gap)
                   ELSE <<>>
        emitted == [k \in 1..Len(touched) |->
                       TouchSignal(idx - 1, High(d, idx - 1), "bearish")]
    IN  << IF cfg.show_broken THEN marked ELSE DropIndices(marked, broken, 1),
           signals \o emitted >>

\* remove_broken_and_signal_bear_boxes: <<bear_boxes, signals>>
BreakAndSignalBear(boxes, signals, d, idx, isBear_gap, cfg) ==
    LET broken == {i \in 1..Len(boxes) : Low(d, idx) > boxes[i].top}
        marked == [i \in 1..Len(boxes) |->
                      IF i \in broken THEN [boxes[i] EXCEPT !.broken = TRUE] ELSE boxes[i]]
        touched == IF cfg.show_signal /\ idx >= 1
                   THEN SelectSeq(boxes, LAMBDA b :
                            /\ High(d, idx) < b.bottom /\ b.bottom <= High(d, idx - 1)
                            /\ ~isBear_gap)
                   ELSE <<>>
        emitted == [k \in 1..Len(touched) |->
                       TouchSignal(idx - 1, High(d, idx - 1), "bearish")]
    IN  << IF cfg.show_broken THEN marked ELSE DropIndices(marked, broken, 1),
           signals \o emitted >>

\* remove_nested_bull_boxes / remove_nested_bear_boxes
RemoveNested(boxes) ==
    LET nested == {i \in 1..Len(boxes) :
                      \E j \in 1..Len(boxes) :
                          j # i /\ boxes[j].top < boxes[i].top /\ boxes[j].top > boxes[i].bottom}
    IN  DropIndices(boxes, nested, 1)

RECURSIVE RemoveAdditional_newest(_, _)
RemoveAdditional_newest(boxes, box_amount) ==
    IF Len(boxes) >= box_amount /\ boxes # <<>>
    THEN RemoveAdditional_newest(SubSeq(boxes, 1, Len(boxes) - 1), box_amount)
    ELSE boxes

\* remove_additional_boxes, one list: pop(0) while len >= box_amount
RECURSIVE RemoveAdditional(_, _)
RemoveAdditional(boxes, box_amount) ==
    IF Len(boxes) >= box_amount /\ boxes # <<>>
    THEN RemoveAdditional(Tail(boxes), box_amount)
    ELSE boxes

fvg_bar_from_one(st, d, idx, n, cfg) ==
    LET isBull_gap == /\ idx >= 1 /\ High(d, idx - 1) < Low(d, idx)
        st1 == IF isBull_gap
               THEN [st EXCEPT !.bull_boxes = Append(@,
                        [ left |-> idx - 1, right |-> n - 1, top |-> High(d, idx - 1),
                          bottom |-> High(d, idx - 1) - Atr(d, idx), type |-> "bull",
                          percent |-> Frac(0, 1), alpha |-> Frac(15, 100), broken |-> FALSE ])]
               ELSE st
    IN  st1

\* run, lines 85-135: the pass of bar idx over the detector's lists
fvg_bar(st, d, idx, n, cfg) ==
    LET isBull_gap == IsBullGap(d, idx, n, cfg)
        isBear_gap == IsBearGap(d, idx, n, cfg)
        st1 == IF isBull_gap
               THEN [st EXCEPT
                        !.temp_boxes = IF cfg.show_imb
                                       THEN Append(@, TempBox(d, idx, n, Low(d, idx),
                                                High(d, idx - 2), "temp_bull", FiltUp(d, idx)))
                                       ELSE @,
                        !.bull_boxes = Append(@, BullBox(d, idx, n))]
               ELSE st
        st2 == IF isBear_gap
               THEN [st1 EXCEPT
                        !.temp_boxes = IF cfg.show_imb
                                       THEN Append(@, TempBox(d, idx, n, High(d, idx),
                                                Low(d, idx - 2), "temp_bear", FiltDn(d, idx)))
                                       ELSE @,
                        !.bear_boxes = Append(@, BearBox(d, idx, n))]
               ELSE st1
        bull == BreakAndSignalBull(st2.bull_boxes, st2.signals, d, idx, isBull_gap, cfg)
        bull_kept == RemoveNested(bull[1])
        bear == BreakAndSignalBear(st2.bear_boxes, bull[2], d, idx, isBear_gap, cfg)
        bear_kept == RemoveNested(bear[1])
    IN  [ bull_boxes |-> RemoveAdditional(bull_kept, cfg.box_amount),
          bear_boxes |-> RemoveAdditional(bear_kept, cfg.box_amount),
          temp_boxes |-> st2.temp_boxes,
          signals |-> bear[2] ]

RECURSIVE FvgBarsFrom(_, _, _, _, _)
FvgBarsFrom(st, d, idx, n, cfg) ==
    IF idx >= n THEN st
    ELSE FvgBarsFrom(fvg_bar(st, d, idx, n, cfg), d, idx + 1, n, cfg)

\* FVGOrderBlocks.run(df), on the lists the detector holds: run does not
\* clear them
fvg_run(st, d, cfg) ==
    LET n == DfLen(d)
        after == FvgBarsFrom(st, d, 0, n, cfg)
        right_ext == n - 1 + 15
    IN  IF n = 0 THEN st
        ELSE [ after EXCEPT
                 !.bull_boxes = [i \in 1..Len(@) |-> [@[i] EXCEPT !.right = right_ext]],
                 !.bear_boxes = [i \in 1..Len(@) |-> [@[i] EXCEPT !.right = right_ext]],
                 !.temp_boxes = [i \in 1..Len(@) |-> [@[i] EXCEPT !.right = Min(@, n - 1)]] ]

\* run, lines 137-145: the end of run on a series of n >= 1 bars
fvg_finish(st, n) ==
    [ st EXCEPT
        !.bull_boxes = [i \in 1..Len(@) |-> [@[i] EXCEPT !.right = n - 1 + 15]],
        !.bear_boxes = [i \in 1..Len(@) |-> [@[i] EXCEPT !.right = n - 1 + 15]],
        !.temp_boxes = [i \in 1..Len(@) |-> [@[i] EXCEPT !.right = Min(@, n - 1)]] ]

\* ------------------------------------- strategy/sonarlaplaceorderblocks.py
\* SonarlaplaceOrderBlocks(sensitivity=28, OBMitigationType=mode): __init__
\* stores the mode as given
NewSonar(mode) ==
    [ sensitivity |-> 28, OBMitigationType |-> mode, buy_alert |-> TRUE,
      sell_alert |-> TRUE, long_boxes |-> <<>>, short_boxes |-> <<>>, signals |-> <<>> ]

\* pc.iat[i] is NaN below bar 4 (Open.shift(4))
PcIsNaN(i) == i < 4

\* pc.iat[i] < -sens and pc.iat[i] > sens and their complements, for
\* pc = (Open - Open.shift(4)) / Open.shift(4) * 100 and sens = sensitivity / 100
PcBelow(d, i, sensitivity) == (Open(d, i) - Open(d, i - 4)) * 10000 < -sensitivity * Open(d, i - 4)
PcAbove(d, i, sensitivity) == (Open(d, i) - Open(d, i - 4)) * 10000 > sensitivity * Open(d, i - 4)

\* _detect_crosses: <<ob_created, ob_created_bull>>
detect_crosses(sn, d, idx, ob_created, ob_created_bull) ==
    IF PcIsNaN(idx - 1) \/ PcIsNaN(idx) THEN <<ob_created, ob_created_bull>>
    ELSE << ob_created \/ (~PcBelow(d, idx - 1, sn.sensitivity) /\ PcBelow(d, idx, sn.sensitivity)),
            ob_created_bull \/ (~PcAbove(d, idx - 1, sn.sensitivity) /\ PcAbove(d, idx, sn.sensitivity)) >>

NeverCreated == -9999

\* b.created_at or -9999: a created_at of 0 counts as never
CreatedAtOr(b) == IF b.created_at = 0 THEN NeverCreated ELSE b.created_at

RECURSIVE MaxCreatedAt(_)
MaxCreatedAt(boxes) ==
    IF boxes = <<>> THEN NeverCreated
    ELSE Max(CreatedAtOr(boxes[1]), MaxCreatedAt(Tail(boxes)))

\* _get_last_created_idx
get_last_created_idx(sn) == Max(MaxCreatedAt(sn.short_boxes), MaxCreatedAt(sn.long_boxes))

\* A scan that takes the bar four back whatever its colour
FirstCandle_any(d, idx, off, green) ==
    IF idx - off >= 0 THEN idx - off ELSE NoneVal

\* The offsets 4..15 back from idx, nearest first: the first bar that is
\* green (close > open) or red (close < open), or NoneVal
RECURSIVE FirstCandle(_, _, _, _)
FirstCandle(d, idx, off, green) ==
    IF off > 15 THEN NoneVal
    ELSE IF /\ idx - off >= 0
            /\ IF green THEN Close(d, idx - off) > Open(d, idx - off)
                         ELSE Close(d, idx - off) < Open(d, idx - off)
    THEN idx - off
    ELSE FirstCandle(d, idx, off + 1, green)

SonarBox(d, anchor, idx, n, box_type) ==
    [ left |-> anchor, right |-> n - 1, top |-> High(d, anchor), bottom |-> Low(d, anchor),
      box_type |-> box_type, created_at |-> idx ]

\* A creation that checks no spacing
create_bearish_ob_unspaced(sn, d, idx, n) ==
    LET last_green_idx == FirstCandle(d, idx, 4, TRUE)
    IN  IF last_green_idx = NoneVal THEN sn
        ELSE [sn EXCEPT !.short_boxes = Append(@, SonarBox(d, last_green_idx, idx, n, "bearish"))]

\* _create_bearish_ob: the detector after the call (the flag comes back False)
create_bearish_ob(sn, d, idx, n) ==
    LET last_created_idx == get_last_created_idx(sn)
        last_green_idx == FirstCandle(d, idx, 4, TRUE)
    IN  IF last_created_idx # NeverCreated /\ (idx - last_created_idx) <= 5 THEN sn
        ELSE IF last_green_idx = NoneVal THEN sn
        ELSE [sn EXCEPT !.short_boxes = Append(@, SonarBox(d, last_green_idx, idx, n, "bearish"))]

\* _create_bullish_ob
create_bullish_ob(sn, d, idx, n) ==
    LET last_created_idx == get_last_created_idx(sn)
        last_red_idx == FirstCandle(d, idx, 4, FALSE)
    IN  IF last_created_idx # NeverCreated /\ (idx - last_created_idx) <= 5 THEN sn
        ELSE IF last_red_idx = NoneVal THEN sn
        ELSE [sn EXCEPT !.long_boxes = Append(@, SonarBox(d, last_red_idx, idx, n, "bullish"))]

\* run, lines 71-76: the mitigation values at bar idx; <<is NaN, value>>.
\* Any mode other than "Close" takes the else branch, the wick values.
BearMitigation(sn, d, idx) ==
    IF sn.OBMitigationType = "Close"
    THEN IF idx = 0 THEN <<TRUE, 0>> ELSE <<FALSE, Close(d, idx - 1)>>
    ELSE <<FALSE, High(d, idx)>>

BullMitigation(sn, d, idx) ==
    IF sn.OBMitigationType = "Close"
    THEN IF idx = 0 THEN <<TRUE, 0>> ELSE <<FALSE, Close(d, idx - 1)>>
    ELSE <<FALSE, Low(d, idx)>>

\* A pass that, after a removal, steps over the zone before the removed one
RECURSIVE ProcessBearishFrom_skipping(_, _, _, _)
ProcessBearishFrom_skipping(sn, d, idx, j) ==
    IF j < 1 THEN sn
    ELSE LET sbox == sn.short_boxes[j]
             val == BearMitigation(sn, d, idx)
         IN  IF ~val[1] /\ val[2] > sbox.top
             THEN ProcessBearishFrom_skipping(
                      [sn EXCEPT !.short_boxes = DropIndices(@, {j}, 1)], d, idx, j - 2)
             ELSE IF High(d, idx) > sbox.bottom /\ sn.sell_alert
             THEN ProcessBearishFrom_skipping(
                      [sn EXCEPT !.signals = Append(@, TouchSignal(idx, High(d, idx), "sell"))],
                      d, idx, j - 1)
             ELSE ProcessBearishFrom_skipping(sn, d, idx, j - 1)

\* _process_bearish_obs, the loop from box j down to the first
RECURSIVE ProcessBearishFrom(_, _, _, _)
ProcessBearishFrom(sn, d, idx, j) ==
    IF j < 1 THEN sn
    ELSE LET sbox == sn.short_boxes[j]
             val == BearMitigation(sn, d, idx)
         IN  IF ~val[1] /\ val[2] > sbox.top
             THEN ProcessBearishFrom(
                      [sn EXCEPT !.short_boxes = DropIndices(@, {j}, 1)], d, idx, j - 1)
             ELSE IF High(d, idx) > sbox.bottom /\ sn.sell_alert
             THEN ProcessBearishFrom(
                      [sn EXCEPT !.signals = Append(@, TouchSignal(idx, High(d, idx), "sell"))],
                      d, idx, j - 1)
             ELSE ProcessBearishFrom(sn, d, idx, j - 1)

\* _process_bullish_obs
RECURSIVE ProcessBullishFrom(_, _, _, _)
ProcessBullishFrom(sn, d, idx, j) ==
    IF j < 1 THEN sn
    ELSE LET lbox == sn.long_boxes[j]
             val == BullMitigation(sn, d, idx)
         IN  IF ~val[1] /\ val[2] < lbox.bottom
             THEN ProcessBullishFrom(
                      [sn EXCEPT !.long_boxes = DropIndices(@, {j}, 1)], d, idx, j - 1)
             ELSE IF Low(d, idx) < lbox.top /\ sn.buy_alert
             THEN ProcessBullishFrom(
                      [sn EXCEPT !.signals = Append(@, TouchSignal(idx, Low(d, idx), "buy"))],
                      d, idx, j - 1)
             ELSE ProcessBullishFrom(sn, d, idx, j - 1)

\* run, lines 83-96: the crosses and the creations of bar idx; the two flags
\* never outlive the bar, the create functions returning False
SonarCreate(sn, d, idx, n) ==
    LET flags == IF idx >= 1 THEN detect_crosses(sn, d, idx, FALSE, FALSE)
                 ELSE <<FALSE, FALSE>>
        sn1 == IF flags[1] THEN create_bearish_ob(sn, d, idx, n) ELSE sn
    IN  IF flags[2] THEN create_bullish_ob(sn1, d, idx, n) ELSE sn1

\* A bar that processes the lists before it creates
sonar_bar_process_first(sn, d, idx, n) ==
    LET sn3 == ProcessBearishFrom(sn, d, idx, Len(sn.short_boxes))
        sn4 == ProcessBullishFrom(sn3, d, idx, Len(sn3.long_boxes))
    IN  SonarCreate(sn4, d, idx, n)

\* run, lines 97-100: the two lists processed after the creations of the bar
sonar_bar(sn, d, idx, n) ==
    LET sn2 == SonarCreate(sn, d, idx, n)
        sn3 == ProcessBearishFrom(sn2, d, idx, Len(sn2.short_boxes))
    IN  ProcessBullishFrom(sn3, d, idx, Len(sn3.long_boxes))

RECURSIVE SonarBarsFrom(_, _, _, _)
SonarBarsFrom(sn, d, idx, n) ==
    IF idx >= n THEN sn
    ELSE SonarBarsFrom(sonar_bar(sn, d, idx, n), d, idx + 1, n)

\* SonarlaplaceOrderBlocks.run(df): the lists are reset first
sonar_run(sn, d) ==
    SonarBarsFrom([sn EXCEPT !.long_boxes = <<>>, !.short_boxes = <<>>, !.signals = <<>>],
                  d, 0, DfLen(d))

\* ----------------------------------------------------------- the inputs
DataFrames == [1..NBars -> BarShapes]

\* Signals as the generator dates them: with the timestamp of their own bar
Signals ==
    { s \in [ index : 0..(NBars - 1), price : SignalPrices,
              date : 0..(NBars - 1), type : SignalTypes,
              symbol : Securities, signalStrength : 0..MaxStrength ] :
        s.date = s.index }

\* pd.Timestamp.max: later than every date of the model
TimestampMax == NBars + 2 * OneDay

NoFn == [op |-> "none"]

\* ------------------------------------------------------------ the actions
Init ==
    /\ agent = ResetState
    /\ force_close_at_end = FALSE
    /\ df = <<>>
    /\ pc = "idle"
    /\ last_date = NoneVal
    /\ nsignals = 0
    /\ sell_seen = FALSE
    /\ strength_seen = FALSE
    /\ raised = "none"
    /\ fn = NoFn

\* ui/common.py: set_force_close_at_end(True), before a run
SetForceCloseAtEnd ==
    /\ pc = "idle"
    /\ ~force_close_at_end
    /\ force_close_at_end' = TRUE
    /\ UNCHANGED <<agent, df, pc, last_date, nsignals, sell_seen, strength_seen, raised, fn>>

\* execute_signals(df, enhanced_signals), lines 67-73.  The sorted list is
\* taken one signal at a time by LoopBody: any list in key order is the
\* result of sorted() on some input.
ExecuteSignals ==
    /\ pc = "idle"
    /\ \E d \in DataFrames : df' = d
    /\ agent' = ResetState
    /\ pc' = "loop"
    /\ last_date' = NoneVal
    /\ nsignals' = 0
    /\ sell_seen' = FALSE
    /\ strength_seen' = FALSE
    /\ raised' = "none"
    /\ UNCHANGED <<force_close_at_end, fn>>

\* execute_signals, lines 75-83: the next signal of the sorted list
LoopBody ==
    /\ pc = "loop"
    /\ nsignals < MaxSignals
    /\ \E s \in Signals :
        /\ SortKey(s.date) >= SortKey(last_date)
        /\ last_date' = s.date
        /\ sell_seen' = (sell_seen \/ ~is_long_signal(s.type))
        /\ strength_seen' = (strength_seen \/ s.signalStrength > 0)
        /\ agent' = loop_body(agent, df, s).agent
        /\ raised' = loop_body(agent, df, s).raised
    /\ nsignals' = nsignals + 1
    /\ pc' = IF raised' = "none" THEN "loop" ELSE "raised"
    /\ UNCHANGED <<force_close_at_end, df, fn>>

\* execute_signals, lines 85-114: after the last signal
FinishExecuteSignals ==
    /\ pc = "loop"
    /\ agent' = final_results(IF force_close_at_end THEN force_close(agent, df)
                              ELSE agent)
    /\ pc' = "done"
    /\ UNCHANGED <<force_close_at_end, df, last_date, nsignals, sell_seen, strength_seen, raised, fn>>

\* tests/test_trade_agent.py, _run_agent_and_finalize: after the run, the
\* caller's _process_pending_exits(pd.Timestamp.max)
LatePendingExits ==
    /\ pc = "done"
    /\ agent' = process_pending_exits(agent, df, TimestampMax).agent
    /\ raised' = process_pending_exits(agent, df, TimestampMax).raised
    /\ pc' = "finalized"
    /\ UNCHANGED <<force_close_at_end, df, last_date, nsignals, sell_seen, strength_seen, fn>>

\* The strength table, applied to an input drawn by InitStrength
StrengthInputs ==
    [ op : {"calculate_signal_strength"}, inside_fvg : BOOLEAN,
      inside_sonar : BOOLEAN, fvg_alpha : {NoneVal} \cup 0..MaxAlpha,
      dark_alpha_threshold : 0..MaxAlpha, result : {NoneVal} ]

InitStrength ==
    /\ agent = ResetState
    /\ force_close_at_end = FALSE
    /\ df = <<>>
    /\ pc = "idle"
    /\ last_date = NoneVal
    /\ nsignals = 0
    /\ sell_seen = FALSE
    /\ strength_seen = FALSE
    /\ raised = "none"
    /\ fn \in StrengthInputs

CalculateSignalStrength ==
    /\ fn.op = "calculate_signal_strength"
    /\ fn.result = NoneVal
    /\ fn' = [fn EXCEPT !.result =
                 calculate_signal_strength(fn.inside_fvg, fn.inside_sonar,
                                           fn.fvg_alpha, fn.dark_alpha_threshold)]
    /\ UNCHANGED <<agent, force_close_at_end, df, pc, last_date, nsignals, sell_seen, strength_seen, raised>>

SpecStrength == InitStrength /\ [][CalculateSignalStrength]_vars

\* No run of the agent is in progress: the state of the function harnesses
NoRun ==
    /\ agent = ResetState
    /\ force_close_at_end = FALSE
    /\ df = <<>>
    /\ pc = "idle"
    /\ last_date = NoneVal
    /\ nsignals = 0
    /\ sell_seen = FALSE
    /\ strength_seen = FALSE
    /\ raised = "none"

runVars == <<agent, force_close_at_end, df, pc, last_date, nsignals, sell_seen, strength_seen, raised>>

\* A zone and a point; the zone's bounds come in any order
ZoneInputs ==
    [ op : {"zone"},
      box : {Box(l, r, t, b) : l \in 0..MaxCoord, r \in 0..MaxCoord,
                               t \in 0..MaxCoord, b \in 0..MaxCoord},
      idx : 0..(MaxCoord + 1), price : 0..(MaxCoord + 1),
      method_done : {FALSE}, method : {FALSE},
      helper_done : {FALSE}, helper : {FALSE} ]

InitZone == NoRun /\ fn \in ZoneInputs

\* box.contains_point(idx, price)
ContainsPoint ==
    /\ fn.op = "zone"
    /\ ~fn.method_done
    /\ fn' = [fn EXCEPT !.method_done = TRUE,
                        !.method = contains_point(fn.box, fn.idx, fn.price)]
    /\ UNCHANGED runVars

\* point_in_box(idx, price, box.to_dict())
PointInBox ==
    /\ fn.op = "zone"
    /\ ~fn.helper_done
    /\ fn' = [fn EXCEPT !.helper_done = TRUE,
                        !.helper = point_in_box(fn.idx, fn.price, to_dict(fn.box))]
    /\ UNCHANGED runVars

NextZone == ContainsPoint \/ PointInBox

SpecZone == InitZone /\ [][NextZone]_vars

\* Raw signals as the detectors hand them over: objects with an index, a
\* price in units of 1e-7 (or None) and a type tag
RawPrices == {NoneVal, 10, 14, 20}

RawSignals == [index : 0..1, price : RawPrices, type : TypeTags]

RECURSIVE SeqsUpTo(_, _)
SeqsUpTo(S, n) ==
    IF n = 0 THEN {<<>>}
    ELSE SeqsUpTo(S, n - 1)
         \cup {Append(q, x) : q \in {r \in SeqsUpTo(S, n - 1) : Len(r) = n - 1}, x \in S}

\* The detectors' zone lists after run(df): none, or one bullish gap zone
\* and one bearish momentum zone over the bars and prices of the signals
EnrichZones ==
    { [bull_boxes |-> <<>>, bear_boxes |-> <<>>, long_boxes |-> <<>>, short_boxes |-> <<>>],
      [bull_boxes |-> <<BoxWithAlpha(0, 1, 14, 0, 5)>>, bear_boxes |-> <<>>,
       long_boxes |-> <<>>, short_boxes |-> <<BoxWithAlpha(1, 1, 20, 20, 0)>>] }

EnrichInputs ==
    [ op : {"process_raw_signals"}, raw_signals : SeqsUpTo(RawSignals, MaxRaw),
      zones : EnrichZones, done : {FALSE}, enhanced : {<<>>} ]

InitEnrich ==
    /\ agent = ResetState
    /\ force_close_at_end = FALSE
    /\ df = [i \in 1..NBars |-> [High |-> 101, Low |-> 99, Close |-> 100]]
    /\ pc = "idle"
    /\ last_date = NoneVal
    /\ nsignals = 0
    /\ sell_seen = FALSE
    /\ strength_seen = FALSE
    /\ raised = "none"
    /\ fn \in EnrichInputs

\* SignalGenerator._process_raw_signals(raw_signals, df, file_name)
ProcessRawSignals ==
    /\ fn.op = "process_raw_signals"
    /\ ~fn.done
    /\ fn' = [fn EXCEPT !.done = TRUE,
                        !.enhanced = process_raw_signals(fn.raw_signals, df, "A", fn.zones)]
    /\ UNCHANGED runVars

SpecEnrich == InitEnrich /\ [][ProcessRawSignals]_vars

\* One raw signal against zone lists of both directions: a light zone, a
\* dark zone overlapping it and a one-bar zone, in any order
DirectionPrices == {10, 20, 30}

DirectionBoxes ==
    { BoxWithAlpha(0, 1, 14, 0, 2), BoxWithAlpha(0, 1, 20, 10, 5),
      BoxWithAlpha(1, 1, 20, 20, 9) }

DirectionZones ==
    [ bull_boxes : SeqsUpTo(DirectionBoxes, MaxGapZones),
      bear_boxes : SeqsUpTo(DirectionBoxes, MaxGapZones),
      long_boxes : SeqsUpTo(DirectionBoxes, 1),
      short_boxes : SeqsUpTo(DirectionBoxes, 1) ]

DirectionInputs ==
    [ op : {"process_raw_signals"},
      raw_signals : {<<r>> : r \in [index : 0..1, price : DirectionPrices, type : TypeTags]},
      zones : DirectionZones, done : {FALSE}, enhanced : {<<>>} ]

InitDirection ==
    /\ agent = ResetState
    /\ force_close_at_end = FALSE
    /\ df = [i \in 1..NBars |-> [High |-> 101, Low |-> 99, Close |-> 100]]
    /\ pc = "idle"
    /\ last_date = NoneVal
    /\ nsignals = 0
    /\ sell_seen = FALSE
    /\ strength_seen = FALSE
    /\ raised = "none"
    /\ fn \in DirectionInputs

SpecDirection == InitDirection /\ [][ProcessRawSignals]_vars

\* The bars of a detector series [Open, High, Low, Close], in units of which
\* 420 is one tenth of the base price:
\*   a green bar low, a green bar high, a red bar low, a red bar between.
\* low-green, between, high-green is a bullish gap at the third bar;
\* high-green, between, low-green a bearish one.
DetBarShapes ==
    { [Open |-> 3780, High |-> 4620, Low |-> 3780, Close |-> 4200],
      [Open |-> 5040, High |-> 5880, Low |-> 5040, Close |-> 5460],
      [Open |-> 4200, High |-> 4620, Low |-> 3780, Close |-> 3780],
      [Open |-> 5040, High |-> 5460, Low |-> 4200, Close |-> 4620] }

\* The mitigation modes a caller passes: the two of the docstring and another
SonarModes == {"Close", "Wick", "Body"}

FvgConfigs == {DefaultFvgConfig, [DefaultFvgConfig EXCEPT !.show_signal = TRUE]}

\* A series, a gap detector just constructed, and no momentum detector yet
DetectorInputs ==
    [ op : {"detectors"}, bars : SeqsUpTo(DetBarShapes, MaxDetBars),
      fvg_cfg : FvgConfigs, fvg : {NewFvg}, fvg_runs : {0},
      sonar : {<<>>}, sonar_runs : {0} ]

InitDetectors == NoRun /\ fn \in DetectorInputs

\* FVGOrderBlocks.run(df)
FvgRun ==
    /\ fn.op = "detectors"
    /\ fn.fvg_runs < MaxRuns
    /\ fn' = [fn EXCEPT !.fvg = fvg_run(@, fn.bars, fn.fvg_cfg), !.fvg_runs = @ + 1]
    /\ UNCHANGED runVars

\* SonarlaplaceOrderBlocks(OBMitigationType=mode)
ConstructSonar ==
    /\ fn.op = "detectors"
    /\ fn.sonar = <<>>
    /\ \E mode \in SonarModes : fn' = [fn EXCEPT !.sonar = <<NewSonar(mode)>>]
    /\ UNCHANGED runVars

\* SonarlaplaceOrderBlocks.run(df)
SonarRun ==
    /\ fn.op = "detectors"
    /\ fn.sonar # <<>>
    /\ fn.sonar_runs < MaxRuns
    /\ fn' = [fn EXCEPT !.sonar = <<sonar_run(fn.sonar[1], fn.bars)>>, !.sonar_runs = @ + 1]
    /\ UNCHANGED runVars

NextDetectors == FvgRun \/ ConstructSonar \/ SonarRun

SpecDetectors == InitDetectors /\ [][NextDetectors]_vars

\* FVGOrderBlocks(box_amount=k, show_broken=b): small capacities
GapAmounts == {1, 2, 3}

GapConfigs ==
    { [DefaultFvgConfig EXCEPT !.box_amount = k, !.show_broken = b] :
        k \in GapAmounts, b \in BOOLEAN }

\* A series and a gap detector just constructed, at bar 0 of run(df); prev is
\* the detector's lists at the start of the bar last processed
GapBarInputs ==
    [ op : {"fvg_bars"}, bars : SeqsUpTo(DetBarShapes, MaxDetBars),
      fvg_cfg : GapConfigs, fvg : {NewFvg}, prev : {NewFvg}, idx : {0} ]

InitGapBars == NoRun /\ fn \in GapBarInputs

\* run, lines 85-135: one iteration of the loop over the bars
FvgBar ==
    /\ fn.op = "fvg_bars"
    /\ fn.idx < DfLen(fn.bars)
    /\ fn' = [fn EXCEPT !.fvg = fvg_bar(@, fn.bars, fn.idx, DfLen(fn.bars), fn.fvg_cfg),
                        !.prev = fn.fvg,
                        !.idx = @ + 1]
    /\ UNCHANGED runVars

SpecGapBars == InitGapBars /\ [][FvgBar]_vars

\* The bars of DetBarShapes and two more, far below and far above them: a
\* bar whose high is under the bottom of a bullish zone, and one whose low is
\* over the top of a bearish zone
EventBarShapes ==
    DetBarShapes \cup
    { [Open |-> 1260, High |-> 1680, Low |-> 840, Close |-> 1260],
      [Open |-> 8400, High |-> 9240, Low |-> 8400, Close |-> 8820] }

\* FVGOrderBlocks(show_broken=b, show_signal=s), the capacity the default
EventConfigs ==
    { [DefaultFvgConfig EXCEPT !.show_broken = b, !.show_signal = g] :
        b \in BOOLEAN, g \in BOOLEAN }

GapEventInputs ==
    [ op : {"fvg_bars"}, bars : SeqsUpTo(EventBarShapes, MaxEventBars),
      fvg_cfg : EventConfigs, fvg : {NewFvg}, prev : {NewFvg}, idx : {0} ]

InitGapEvents == NoRun /\ fn \in GapEventInputs

SpecGapEvents == InitGapEvents /\ [][FvgBar]_vars

\* A bar of DetBarShapes at three times its prices, so that the mean of
\* eighteen true ranges is an integer
Tripled(b) ==
    [Open |-> 3 * b.Open, High |-> 3 * b.High, Low |-> 3 * b.Low, Close |-> 3 * b.Close]

\* Eighteen bars: fifteen low green bars, then low-green, between,
\* high-green, a bullish gap at the last bar
LongSeries ==
    [i \in 1..18 |->
        IF i <= 16 THEN Tripled([Open |-> 3780, High |-> 4620, Low |-> 3780, Close |-> 4200])
        ELSE IF i = 17 THEN Tripled([Open |-> 5040, High |-> 5460, Low |-> 4200, Close |-> 4620])
        ELSE Tripled([Open |-> 5040, High |-> 5880, Low |-> 5040, Close |-> 5460])]

\* One high green bar
OneBarSeries == <<Tripled([Open |-> 5040, High |-> 5880, Low |-> 5040, Close |-> 5460])>>

\* The series of two calls of run on one detector: the same series twice, or
\* the long series and then the one-bar series
ReusePairs ==
    {<<b, b>> : b \in SeqsUpTo(DetBarShapes, MaxReuseBars)}
    \cup {<<LongSeries, OneBarSeries>>, <<LongSeries, LongSeries>>}

\* fvg = FVGOrderBlocks(...); fvg.run(series[1]); fvg.run(series[2]).  run is
\* the call in progress, idx its bar, first the lists the first call left
GapReuseInputs ==
    [ op : {"fvg_reuse"}, series : ReusePairs, fvg_cfg : FvgConfigs,
      fvg : {NewFvg}, first : {NewFvg}, run : {1}, idx : {0} ]

InitGapReuse == NoRun /\ fn \in GapReuseInputs

\* run, lines 85-135: one iteration of the loop of the call in progress
ReuseBar ==
    /\ fn.op = "fvg_reuse"
    /\ fn.run \in {1, 2}
    /\ fn.idx < DfLen(fn.series[fn.run])
    /\ fn' = [fn EXCEPT !.fvg = fvg_bar(@, fn.series[fn.run], fn.idx,
                                        DfLen(fn.series[fn.run]), fn.fvg_cfg),
                        !.idx = @ + 1]
    /\ UNCHANGED runVars

\* run, lines 68-70 and 137-145: the call returns, at once on an empty
\* series, and the next call begins
ReuseReturn ==
    /\ fn.op = "fvg_reuse"
    /\ fn.run \in {1, 2}
    /\ fn.idx = DfLen(fn.series[fn.run])
    /\ LET n == DfLen(fn.series[fn.run])
           out == IF n = 0 THEN fn.fvg ELSE fvg_finish(fn.fvg, n)
       IN  fn' = [fn EXCEPT !.fvg = out,
                            !.first = IF fn.run = 1 THEN out ELSE @,
                            !.run = @ + 1,
                            !.idx = 0]
    /\ UNCHANGED runVars

NextGapReuse == ReuseBar \/ ReuseReturn

SpecGapReuse == InitGapReuse /\ [][NextGapReuse]_vars

\* Three of the DetBarShapes by name: the low green bar, the high green bar
\* and the red bar between
GreenLow == [Open |-> 3780, High |-> 4620, Low |-> 3780, Close |-> 4200]
GreenHigh == [Open |-> 5040, High |-> 5880, Low |-> 5040, Close |-> 5460]
RedBetween == [Open |-> 5040, High |-> 5460, Low |-> 4200, Close |-> 4620]

SonarBarShapes == {GreenLow, GreenHigh, RedBetween}

\* Fourteen bars with a crossunder at bar 5 and another at bar 11, six bars
\* later: bars 0 and 7 green, low or high, and the last two bars free
SonarLongSeries ==
    { [i \in 1..14 |->
          IF i = 1 THEN a
          ELSE IF i = 8 THEN b
          ELSE IF i = 13 THEN c
          ELSE IF i = 14 THEN e
          ELSE IF i \in {6, 12} THEN GreenLow
          ELSE RedBetween] :
        a \in {GreenLow, GreenHigh}, b \in {RedBetween, GreenHigh},
        c \in SonarBarShapes, e \in SonarBarShapes }

\* The low red bar of DetBarShapes
RedLow == [Open |-> 4200, High |-> 4620, Low |-> 3780, Close |-> 3780]

\* The mirror: a crossover at bar 5 and another at bar 11, bars 0 and 7 red
\* or not, and the last two bars free
SonarLongSeriesUp ==
    { [i \in 1..14 |->
          IF i = 1 THEN a
          ELSE IF i = 8 THEN b
          ELSE IF i = 13 THEN c
          ELSE IF i = 14 THEN e
          ELSE IF i \in {6, 12} THEN RedBetween
          ELSE GreenLow] :
        a \in {RedLow, RedBetween}, b \in {GreenLow, RedLow},
        c \in DetBarShapes, e \in DetBarShapes }

\* SonarlaplaceOrderBlocks(OBMitigationType=mode, buy_alert=a, sell_alert=a)
SonarConfigs ==
    { [NewSonar(mode) EXCEPT !.buy_alert = a, !.sell_alert = a] :
        mode \in {"Close", "Wick"}, a \in BOOLEAN }

\* A series and a momentum detector at bar 0 of run(df); prev is the detector
\* at the start of the bar last processed, mid the detector after the
\* creations of that bar, created the bars at which a zone was appended
SonarBarInputs ==
    [ op : {"sonar_bars"},
      bars : SeqsUpTo(SonarBarShapes, MaxSonarBars)
                 \cup SonarLongSeries \cup SonarLongSeriesUp,
      sonar : SonarConfigs, prev : SonarConfigs, mid : SonarConfigs,
      created : {{}}, idx : {0} ]

InitSonarBars ==
    NoRun /\ fn \in {i \in SonarBarInputs : i.prev = i.sonar /\ i.mid = i.sonar}

\* run, lines 83-100: one iteration of the loop over the bars
SonarBar ==
    /\ fn.op = "sonar_bars"
    /\ fn.idx < DfLen(fn.bars)
    /\ LET n == DfLen(fn.bars)
           made == SonarCreate(fn.sonar, fn.bars, fn.idx, n)
           grew == \/ Len(made.short_boxes) > Len(fn.sonar.short_boxes)
                   \/ Len(made.long_boxes) > Len(fn.sonar.long_boxes)
       IN  fn' = [fn EXCEPT !.sonar = sonar_bar(@, fn.bars, fn.idx, n),
                            !.prev = fn.sonar,
                            !.mid = made,
                            !.created = IF grew THEN @ \cup {fn.idx} ELSE @,
                            !.idx = @ + 1]
    /\ UNCHANGED runVars

SpecSonarBars == InitSonarBars /\ [][SonarBar]_vars

\* Both detectors bar by bar: a gap detector on its series or a momentum
\* detector on its series
InitTouchBars == InitGapEvents \/ InitSonarBars

NextTouchBars == FvgBar \/ SonarBar

SpecTouchBars == InitTouchBars /\ [][NextTouchBars]_vars

\* ---------------------------------------------------------- ui/backtest.py
\* The batch backtest.  A CSV file is [name, sec, fails, rows]: sec the
\* security its name carries, fails whether load_data raises, rows the
\* loaded frame, one [date, bar] per row.

\* _process_files_parallel, lines 144-151: the security of a file name
extract_security(f) == f.sec

\* df.index.min(), line 157
RECURSIVE MinDate(_)
MinDate(rows) ==
    IF Len(rows) = 1 THEN rows[1].date
    ELSE Min(rows[1].date, MinDate(Tail(rows)))

\* An order that ignores the start dates
SortByStart_unsorted(entries) == entries

\* entries.sort(key = start), line 163: stable insertion of f
RECURSIVE InsertByStart(_, _)
InsertByStart(sorted, f) ==
    IF sorted = <<>> THEN <<f>>
    ELSE IF MinDate(sorted[Len(sorted)].rows) <= MinDate(f.rows) THEN Append(sorted, f)
    ELSE Append(InsertByStart(SubSeq(sorted, 1, Len(sorted) - 1), f), sorted[Len(sorted)])

RECURSIVE SortByStart(_)
SortByStart(entries) ==
    IF entries = <<>> THEN <<>>
    ELSE InsertByStart(SortByStart(SubSeq(entries, 1, Len(entries) - 1)),
                       entries[Len(entries)])

\* pd.concat(dfs), line 167
RECURSIVE Concat(_)
Concat(entries) ==
    IF entries = <<>> THEN <<>>
    ELSE entries[1].rows \o Concat(Tail(entries))

\* sort_index(), line 167: rows of equal date keep their order
RECURSIVE InsertByIndex(_, _)
InsertByIndex(sorted, r) ==
    IF sorted = <<>> THEN <<r>>
    ELSE IF sorted[Len(sorted)].date <= r.date THEN Append(sorted, r)
    ELSE Append(InsertByIndex(SubSeq(sorted, 1, Len(sorted) - 1), r), sorted[Len(sorted)])

RECURSIVE sort_index(_)
sort_index(rows) ==
    IF rows = <<>> THEN <<>>
    ELSE InsertByIndex(sort_index(SubSeq(rows, 1, Len(rows) - 1)), rows[Len(rows)])

\* merged_df[~merged_df.index.duplicated(keep='first')], line 169
RECURSIVE DropDuplicated(_, _)
DropDuplicated(rows, seen) ==
    IF rows = <<>> THEN <<>>
    ELSE IF rows[1].date \in seen THEN DropDuplicated(Tail(rows), seen)
    ELSE <<rows[1]>> \o DropDuplicated(Tail(rows), seen \cup {rows[1].date})

\* The bars of a frame, its dates being 0, 1, ... in the batches of the model
BarsOf(rows) == [i \in 1..Len(rows) |-> rows[i].bar]

\* The gap zones as the enrichment reads them: alpha in whole tenths,
\* rounded down, which keeps its comparison with the threshold of 4 tenths
AlphaInTenths(boxes) ==
    [i \in 1..Len(boxes) |->
        [boxes[i] EXCEPT !.alpha = (@.num * 10) \div @.den]]

\* SignalGenerator.generate_from_file(df, file_name): fresh detectors, their
\* raw signals, the enhanced signals
generate_from_file(d, file_name) ==
    CHOOSE enriched \in
        { process_raw_signals(raw_signals, d, file_name, zones) :
            <<raw_signals, zones>> \in
                { << fvg.signals \o sonar.signals,
                     [ bull_boxes |-> AlphaInTenths(fvg.bull_boxes),
                       bear_boxes |-> AlphaInTenths(fvg.bear_boxes),
                       long_boxes |-> sonar.long_boxes,
                       short_boxes |-> sonar.short_boxes ] >> :
                  fvg \in {fvg_run(NewFvg, d, DefaultFvgConfig)},
                  sonar \in {sonar_run(NewSonar("Close"), d)} } } : TRUE

\* sorted(grouped.keys()), line 161
SortedSecurities == <<"A", "B">>

\* _process_files_parallel, lines 161-184: the merged result of one security
MergedResult(loaded, sec) ==
    LET entries == SortByStart(SelectSeq(loaded, LAMBDA f : extract_security(f) = sec))
    IN  CHOOSE result \in
            { [ sec |-> sec, merged_df |-> merged_df,
                signals |-> generate_from_file(bars, sec) ] :
              <<merged_df, bars>> \in
                  { <<merged, BarsOf(merged)>> :
                    merged \in {DropDuplicated(sort_index(Concat(entries)), {})} } } : TRUE

\* _process_files_parallel, lines 153-186, on the files in the order their
\* loads completed
RECURSIVE MergedFrom(_, _)
MergedFrom(loaded, k) ==
    IF k > Len(SortedSecurities) THEN <<>>
    ELSE IF \E i \in 1..Len(loaded) : extract_security(loaded[i]) = SortedSecurities[k]
    THEN <<MergedResult(loaded, SortedSecurities[k])>> \o MergedFrom(loaded, k + 1)
    ELSE MergedFrom(loaded, k + 1)

merged_results(loaded) == MergedFrom(loaded, 1)

\* ui/signal_utils.py, filter_buy_signals
filter_buy_signals(signals) ==
    SelectSeq(signals, LAMBDA g : g.signalStrength > 0 /\ g.type = "buy")

\* _find_matching_dataframe: the frame of the first result whose name holds
\* the security, <<>> for None; the names of the model hold no other name
find_matching_dataframe(security, results) ==
    LET hits == SelectSeq(results, LAMBDA r : r.sec = security)
    IN  IF hits = <<>> THEN <<>> ELSE <<BarsOf(hits[1].merged_df)>>

\* pd.Timestamp.max: later than every date of a batch
FarFuture == 99

\* _process_pending_exits under ta._df_mapping = file_dataframes: each
\* position is adjusted against the frame of its own security
RECURSIVE FinalizeAllMapped(_, _, _)
FinalizeAllMapped(st, due, results) ==
    IF due = <<>> \/ st.raised # "none" THEN st
    ELSE LET found == find_matching_dataframe(due[1].security, results)
             d == IF found = <<>> THEN <<>> ELSE found[1]
         IN  FinalizeAllMapped(finalize_exit(st, due[1], d), Tail(due), results)

process_pending_exits_mapped(a, results, current_date) ==
    LET due == SelectSeq(a.portfolio.positions,
                         LAMBDA p : exit_due(p, current_date))
    IN  FinalizeAllMapped([agent |-> a, raised |-> "none"], SortByExitDate(due), results)

\* _execute_all_trades, lines 224-236: the loop over the signals
RECURSIVE BatchLoop(_, _, _)
BatchLoop(st, results, signals) ==
    IF signals = <<>> \/ st.raised # "none" THEN st
    ELSE LET matching_df == find_matching_dataframe(signals[1].symbol, results)
         IN  IF matching_df = <<>> THEN BatchLoop(st, results, Tail(signals))
             ELSE LET exits == process_pending_exits_mapped(st.agent, results,
                                                            signals[1].date)
                  IN  IF exits.raised # "none" THEN exits
                      ELSE BatchLoop(
                               [ agent |-> execute_single_trade(exits.agent,
                                               matching_df[1], signals[1]),
                                 raised |-> "none" ],
                               results, Tail(signals))

\* _execute_all_trades: [agent, raised], the agent holding the ledger, the
\* portfolio and what get_summary reads
execute_all_trades(signals, results) ==
    LET st == BatchLoop([agent |-> ResetState, raised |-> "none"], results, signals)
        last == process_pending_exits_mapped(st.agent, results, FarFuture)
    IN  IF st.raised # "none" THEN st
        ELSE IF last.raised # "none" THEN last
        ELSE [agent |-> final_results(last.agent), raised |-> "none"]

RECURSIVE AllSignals(_)
AllSignals(results) ==
    IF results = <<>> THEN <<>>
    ELSE results[1].signals \o AllSignals(Tail(results))

\* _run_backtest, lines 66-103, after the loads: the results and what it
\* hands to _display_results, <<>> where it returns early
run_backtest(loaded) ==
    CHOOSE out \in
        { [ results |-> results,
            ledger |-> IF results = <<>> \/ filtered_signals = <<>> THEN <<>>
                       ELSE <<execute_all_trades(filtered_signals, results)>> ] :
          <<results, filtered_signals>> \in
              { <<res, SortByDate(filter_buy_signals(AllSignals(res)))>> :
                res \in {merged_results(loaded)} } } : TRUE

\* A bar at a forty-second of its prices, near 100, of which the initial
\* capital buys a share
Scaled(b) ==
    [ Open |-> b.Open \div 42, High |-> b.High \div 42,
      Low |-> b.Low \div 42, Close |-> b.Close \div 42 ]

\* Seven bars: a crossover at bar 5 anchors a bullish zone to the red bar 0,
\* bars 5 and 6 touch it and bar 6 reaches the target of the entry at bar 5
BatchSeries ==
    << Scaled(RedLow), Scaled(GreenLow), Scaled(GreenLow), Scaled(GreenLow),
       Scaled(GreenLow), Scaled(RedBetween), Scaled(RedBetween) >>

Rows(bars, first) ==
    [i \in 1..Len(bars) |-> [date |-> first + i - 1, bar |-> bars[i]]]

CsvFile(name, sec, fails, rows) ==
    [name |-> name, sec |-> sec, fails |-> fails, rows |-> rows]

\* The files a batch is drawn from: the whole series of A, its first four
\* days, its last three, two days from day 0 with other prices, the last
\* three days with other prices, a file whose load fails, an empty file; the
\* whole series of B, a failing file
BatchFiles ==
    { CsvFile("A-all", "A", FALSE, Rows(BatchSeries, 0)),
      CsvFile("A-head", "A", FALSE, Rows(SubSeq(BatchSeries, 1, 4), 0)),
      CsvFile("A-tail", "A", FALSE, Rows(SubSeq(BatchSeries, 5, 7), 4)),
      CsvFile("A-other", "A", FALSE, Rows(<<Scaled(GreenLow), Scaled(GreenLow)>>, 0)),
      CsvFile("A-late", "A", FALSE,
              Rows(<<Scaled(GreenLow), Scaled(GreenLow), Scaled(GreenLow)>>, 4)),
      CsvFile("A-bad", "A", TRUE, <<>>),
      CsvFile("A-empty", "A", FALSE, <<>>),
      CsvFile("B-all", "B", FALSE, Rows(BatchSeries, 0)),
      CsvFile("B-bad", "B", TRUE, <<>>) }

\* The files whose load yields rows
Loadable(files) == {f \in files : ~f.fails /\ f.rows # <<>>}

\* The days of every security of the batch are 0, 1, ... without a hole, so
\* that the position of a row in the merged frame is its date
Contiguous(files) ==
    \A sec \in Securities :
        LET days == UNION {{f.rows[i].date : i \in 1..Len(f.rows)} :
                              f \in {g \in Loadable(files) : g.sec = sec}}
        IN  days = 0..(Cardinality(days) - 1)

Batches ==
    {files \in SUBSET BatchFiles :
        Cardinality(files) \in 1..MaxBatchFiles /\ Contiguous(files)}

\* _run_backtest(CSV_FILES): every load submitted, none completed
BatchInputs ==
    { [ op |-> "batch", files |-> files, pending |-> files, loaded |-> <<>>,
        done |-> FALSE, out |-> [results |-> <<>>, ledger |-> <<>>] ] :
      files \in Batches }

InitBatch == NoRun /\ fn \in BatchInputs

\* _process_files_parallel, lines 124-142: as_completed yields the load of one
\* of the pending files
LoadCompleted ==
    /\ fn.op = "batch"
    /\ \E f \in fn.pending :
           fn' = [fn EXCEPT !.pending = @ \ {f},
                            !.loaded = IF f.fails \/ f.rows = <<>> THEN @
                                       ELSE Append(@, f)]
    /\ UNCHANGED runVars

\* _process_files_parallel from line 144 and _run_backtest after it, once
\* every load has completed
RunBacktest ==
    /\ fn.op = "batch"
    /\ fn.pending = {}
    /\ ~fn.done
    /\ fn' = [fn EXCEPT !.done = TRUE, !.out = run_backtest(fn.loaded)]
    /\ UNCHANGED runVars

NextBatch == LoadCompleted \/ RunBacktest

SpecBatch == InitBatch /\ [][NextBatch]_vars

\* The signals of a list passed twice: price 100, full records otherwise
RerunSignals == {s \in Signals : s.price = 100 /\ s.signalStrength = MaxStrength}

RerunInputs ==
    [ op : {"rerun"}, df : DataFrames, signals : SeqsUpTo(RerunSignals, MaxRerunSignals),
      force : BOOLEAN, runs : {0}, first : {ResetState}, second : {ResetState} ]

InitRerun == NoRun /\ fn \in RerunInputs

\* agent.execute_signals(df, signals), the first call on the agent
ExecuteSignalsOnce ==
    /\ fn.op = "rerun"
    /\ fn.runs = 0
    /\ fn' = [fn EXCEPT !.runs = 1,
                        !.first = execute_signals(ResetState, fn.df, fn.signals, fn.force).agent]
    /\ UNCHANGED runVars

\* agent.execute_signals(df, signals), again on the same agent
ExecuteSignalsAgain ==
    /\ fn.op = "rerun"
    /\ fn.runs = 1
    /\ fn' = [fn EXCEPT !.runs = 2,
                        !.second = execute_signals(fn.first, fn.df, fn.signals, fn.force).agent]
    /\ UNCHANGED runVars

NextRerun == ExecuteSignalsOnce \/ ExecuteSignalsAgain

SpecRerun == InitRerun /\ [][NextRerun]_vars

\* The capital an agent is constructed with, and the prices of the signals
\* its positions are sized for
SizingCapital == {0, 50, 250, 1000}
SizingPrices == {30, 100, 700}

\* Signals of positive strength, dated at the last bar (no forward bar)
SizingSignals ==
    [ index : {NBars - 1}, price : SizingPrices, date : {NBars - 1},
      type : SignalTypes, symbol : Securities, signalStrength : 1..MaxSizingStrength ]

SizingFrame == [i \in 1..NBars |-> [High |-> 101, Low |-> 99, Close |-> 100]]

\* An agent with its capital, nothing held, and no call made yet
InitSizing ==
    /\ NoRun
    /\ \E c \in SizingCapital :
           fn = [ op |-> "sizing", agent |-> [ResetState EXCEPT !.cash = c],
                  opened |-> 0, cash_before |-> c, signal |-> <<>> ]

\* _open_position(df, signal, entry_price, is_long, strength, security), as
\* _execute_single_trade calls it: strength > 0, price > 0, security not held
OpenPosition ==
    /\ fn.op = "sizing"
    /\ fn.opened < MaxOpens
    /\ \E s \in SizingSignals :
           /\ ~has_position(fn.agent.portfolio, s.symbol)
           /\ fn' = [fn EXCEPT
                        !.agent = open_position(@, SizingFrame, s, s.price,
                                                is_long_signal(s.type),
                                                s.signalStrength, s.symbol),
                        !.opened = @ + 1,
                        !.cash_before = fn.agent.cash,
                        !.signal = <<s>>]
    /\ UNCHANGED runVars

SpecSizing == InitSizing /\ [][OpenPosition]_vars

\* The positions a caller of the Portfolio adds: one share at the amount
PositionAmounts == {100, 200, 300}

CallerPositions ==
    { Position(sec, 1, amt, 0, 0, amt, (amt * (100 - StopLossPct)) \div 100,
               (amt * (100 + TargetPct)) \div 100, 1) :
        sec \in Securities, amt \in PositionAmounts }

\* get_portfolio().add_position(position), for a security held or not
AddPosition ==
    /\ pc = "idle"
    /\ \E position \in CallerPositions :
        /\ agent.portfolio.total_capital_used + position.money_allocated <= MaxCapitalUsed
        /\ agent' = [agent EXCEPT !.portfolio = add_position(@, position)]
    /\ UNCHANGED <<force_close_at_end, df, pc, last_date, nsignals, sell_seen, strength_seen, raised, fn>>

\* get_portfolio().remove_position(security), for a security held or not
RemovePosition ==
    /\ pc = "idle"
    /\ \E security \in Securities :
        agent' = [agent EXCEPT !.portfolio = remove_position(@, security)]
    /\ UNCHANGED <<force_close_at_end, df, pc, last_date, nsignals, sell_seen, strength_seen, raised, fn>>

NextPortfolio == AddPosition \/ RemovePosition

SpecPortfolio == Init /\ [][NextPortfolio]_vars

\* Signals a caller builds by hand: the price missing, not a number or
\* infinite, or else the bar index missing
MalformedSignals ==
    { s \in [ index : {NoneVal} \cup 0..(NBars - 1), price : {NoneVal, NaN, Inf, 100},
              date : 0..(NBars - 1), type : SignalTypes,
              symbol : Securities, signalStrength : 0..MaxStrength ] :
        \/ s.index = NoneVal /\ s.price = 100
        \/ s.index # NoneVal /\ s.price \in {NoneVal, NaN, Inf} /\ s.date = s.index }

\* execute_signals, lines 75-83: the next signal of the sorted list is a
\* malformed one
LoopBodyMalformed ==
    /\ pc = "loop"
    /\ nsignals < MaxSignals
    /\ \E s \in MalformedSignals :
        /\ SortKey(s.date) >= SortKey(last_date)
        /\ last_date' = s.date
        /\ sell_seen' = (sell_seen \/ ~is_long_signal(s.type))
        /\ strength_seen' = (strength_seen \/ s.signalStrength > 0)
        /\ agent' = loop_body_raising(agent, df, s).agent
        /\ raised' = loop_body_raising(agent, df, s).raised
    /\ nsignals' = nsignals + 1
    /\ pc' = IF raised' = "none" THEN "loop" ELSE "raised"
    /\ UNCHANGED <<force_close_at_end, df, fn>>

Next ==
    \/ SetForceCloseAtEnd
    \/ ExecuteSignals
    \/ LoopBody
    \/ FinishExecuteSignals
    \/ LatePendingExits

Spec == Init /\ [][Next]_vars

\* The run on a list of hand-built signals
NextMalformed ==
    \/ SetForceCloseAtEnd
    \/ ExecuteSignals
    \/ LoopBodyMalformed
    \/ FinishExecuteSignals
    \/ LatePendingExits

SpecMalformed == Init /\ [][NextMalformed]_vars

\* Signals without a timestamp: date None, everything else as generated
UndatedSignals ==
    { s \in [ index : 0..(NBars - 1), price : {100},
              date : {NoneVal}, type : SignalTypes,
              symbol : Securities, signalStrength : {MaxStrength} ] : TRUE }

\* execute_signals, lines 75-83: the next signal of the sorted list is one
\* without a timestamp
LoopBodyUndated ==
    /\ pc = "loop"
    /\ nsignals < MaxSignals
    /\ \E s \in UndatedSignals :
        /\ SortKey(s.date) >= SortKey(last_date)
        /\ last_date' = s.date
        /\ sell_seen' = (sell_seen \/ ~is_long_signal(s.type))
        /\ strength_seen' = (strength_seen \/ s.signalStrength > 0)
        /\ agent' = loop_body(agent, df, s).agent
        /\ raised' = loop_body(agent, df, s).raised
    /\ nsignals' = nsignals + 1
    /\ pc' = IF raised' = "none" THEN "loop" ELSE "raised"
    /\ UNCHANGED <<force_close_at_end, df, fn>>

\* The run on a list that starts with signals without a timestamp
NextUndated ==
    \/ ExecuteSignals
    \/ LoopBodyUndated
    \/ LoopBody
    \/ FinishExecuteSignals

SpecUndated == Init /\ [][NextUndated]_vars

\* ================================================================ claims
RECURSIVE SumPnl(_)
SumPnl(trades) ==
    IF trades = <<>> THEN 0
    ELSE trades[Len(trades)].pnl + SumPnl(SubSeq(trades, 1, Len(trades) - 1))

Positions == agent.portfolio.positions
PositionSet == {Positions[i] : i \in 1..Len(Positions)}
TradeSet == {agent.trades[i] : i \in 1..Len(agent.trades)}
Running == pc \in {"loop", "done", "finalized"}

LoopStep == pc = "loop" /\ pc' = "loop"

\* The signals the sorted list may continue with
NextSignals == {s \in Signals : s.date >= last_date}

IsDue(p, date) == p.exit_set /\ p.exit_date # NoneVal /\ p.exit_date <= date

RECURSIVE DueLongProceeds(_, _)
DueLongProceeds(ps, date) ==
    IF ps = <<>> THEN 0
    ELSE DueLongProceeds(SubSeq(ps, 1, Len(ps) - 1), date)
         + (IF IsDue(ps[Len(ps)], date) /\ ps[Len(ps)].entry_set /\ ps[Len(ps)].is_long
            THEN ps[Len(ps)].proceeds ELSE 0)

TradeOf(t, p) ==
    /\ t.security = p.security /\ t.entry_index = p.entry_index
    /\ t.exit_date = p.exit_date /\ t.exit_price = p.exit_price
    /\ t.pnl = p.pnl /\ t.shares = p.shares

\* C3, the step: when the loop takes a signal dated t, every open position
\* with exit date <= t is in the ledger after the step, its proceeds are in
\* the cash recorded by the step's last trade, and it is out of the
\* portfolio: a position then held for its security was opened at t.
C3_Step ==
    LoopStep =>
        \A p \in PositionSet : IsDue(p, last_date') =>
            /\ \E k \in (Len(agent.trades) + 1)..Len(agent'.trades) :
                   TradeOf(agent'.trades[k], p)
            /\ agent'.trades[Len(agent'.trades)].cash_after
                   = agent.cash + DueLongProceeds(Positions, last_date')
            /\ \A i \in 1..Len(agent'.portfolio.positions) :
                   LET q == agent'.portfolio.positions[i]
                   IN  q.security = p.security =>
                           q.entry_date = last_date' /\ q.entry_date >= p.exit_date

\* C3, the reopening: a signal with positive strength and price for a
\* security whose position is due at the signal's date opens a new position
\* for it in the same pass of the loop, when the cash after the credits buys
\* at least one share.
C3_Reopens ==
    pc = "loop" =>
        \A s \in NextSignals :
            LET cash1 == agent.cash + DueLongProceeds(Positions, s.date)
                after == loop_body(agent, df, s).agent.portfolio.positions
            IN  ( /\ s.signalStrength > 0 /\ s.price > 0
                  /\ \E p \in PositionSet : p.security = s.symbol /\ IsDue(p, s.date)
                  /\ (cash1 * Min(AllocationStep * s.signalStrength, 100))
                         \div (100 * s.price) > 0 )
                => \E i \in 1..Len(after) :
                       /\ after[i].security = s.symbol
                       /\ after[i].entry_index = s.index
                       /\ after[i].entry_date = s.date

C4_Ignored ==
    pc = "loop" =>
        \A s \in NextSignals :
            LET before == process_pending_exits(agent, df, s.date).agent
            IN  (\E i \in 1..Len(before.portfolio.positions) :
                     before.portfolio.positions[i].security = s.symbol)
                => loop_body(agent, df, s).agent = before

\* C4, the step: a position that is not due at the signal's date is in the
\* portfolio after the step with every field unchanged, and no two positions
\* of the portfolio are for the same security.
C4_Step ==
    LoopStep =>
        /\ \A p \in PositionSet : ~IsDue(p, last_date') =>
               \E i \in 1..Len(agent'.portfolio.positions) :
                   agent'.portfolio.positions[i] = p
        /\ \A i, j \in 1..Len(agent'.portfolio.positions) :
               agent'.portfolio.positions[i].security
                   = agent'.portfolio.positions[j].security => i = j

LongPosition(p) == p.target > p.entry_price
\* The position's exit came from the forward scan (not from a forced close)
ScanResolved(p) == p.exit_set /\ p.entry_set
BarIndexes == 0..(Len(df) - 1)
TargetReached(p, j) ==
    IF LongPosition(p) THEN df[j + 1].High >= p.target ELSE df[j + 1].Low <= p.target
StopReached(p, j) ==
    IF LongPosition(p) THEN df[j + 1].Low <= p.stop_loss ELSE df[j + 1].High >= p.stop_loss

RECURSIVE SumAllocated(_)
SumAllocated(ps) ==
    IF ps = <<>> THEN 0
    ELSE ps[Len(ps)].money_allocated + SumAllocated(SubSeq(ps, 1, Len(ps) - 1))

NeverReached(p) ==
    \A j \in BarIndexes : j > p.entry_index => ~TargetReached(p, j) /\ ~StopReached(p, j)

\* C8, the states: with the forced close disabled, a position none of whose
\* later bars reaches its target or stop has no exit fields, the ledger has
\* no trade of that entry, and in a long-only run the cash stays debited by
\* the cost shares * entry price of every open position.
C8_StaysOpen ==
    (Running /\ ~force_close_at_end) =>
        /\ \A p \in PositionSet : NeverReached(p) =>
               /\ ~p.exit_set
               /\ p.money_allocated = p.shares * p.entry_price
               /\ \A t \in TradeSet :
                      ~(t.security = p.security /\ t.entry_index = p.entry_index
                        /\ t.entry_date = p.entry_date)
        /\ ~sell_seen =>
               agent.cash = InitialCapital + SumPnl(agent.trades) - SumAllocated(Positions)

\* C8, the steps: with the forced close disabled, no step of the run, the
\* late exit pass with the latest date included, changes or removes a
\* position without exit fields, appends a trade for its security, or
\* credits cash for it: the late pass credits the resolved positions only.
C8_Step ==
    (Running /\ ~force_close_at_end) =>
        /\ \A p \in PositionSet : ~p.exit_set =>
               /\ \E i \in 1..Len(agent'.portfolio.positions) :
                      agent'.portfolio.positions[i] = p
               /\ \A k \in (Len(agent.trades) + 1)..Len(agent'.trades) :
                      agent'.trades[k].security # p.security
        /\ (pc = "done" /\ pc' = "finalized") =>
               agent'.cash = agent.cash + DueLongProceeds(Positions, TimestampMax)

C10_StrengthTable ==
    (fn.op = "calculate_signal_strength" /\ fn.result # NoneVal) =>
        LET dark == fn.fvg_alpha # NoneVal /\ fn.fvg_alpha >= fn.dark_alpha_threshold
        IN  /\ (fn.inside_fvg /\ ~fn.inside_sonar) => fn.result = (IF dark THEN 2 ELSE 1)
            /\ (fn.inside_fvg /\ fn.inside_sonar) => fn.result = (IF dark THEN 4 ELSE 3)
            /\ (~fn.inside_fvg /\ fn.inside_sonar) => fn.result = 1
            /\ (~fn.inside_fvg /\ ~fn.inside_sonar) => fn.result = 0
            /\ fn.result \in 0..4
            /\ fn.result = 0 <=> (~fn.inside_fvg /\ ~fn.inside_sonar)

\* C10 witness: the table applied to a point inside both zones whose alpha
\* equals the default threshold (dark, 4), and to one with a null alpha
\* (light, 3).
C10_Witness ==
    /\ fn.op = "calculate_signal_strength"
    /\ fn.inside_fvg /\ fn.inside_sonar
    /\ fn.dark_alpha_threshold = DefaultDarkAlphaThreshold
    /\ \/ fn.fvg_alpha = DefaultDarkAlphaThreshold /\ fn.result = 4
       \/ fn.fvg_alpha = NoneVal /\ fn.result = 3

\* C11: a point is reported inside a zone exactly when left <= idx <= right
\* and bottom <= price <= top, all four bounds inclusive, by the Box method
\* and by the dict helper alike.
C11_ZoneContainment ==
    fn.op = "zone" =>
        LET inside == /\ fn.box.left <= fn.idx /\ fn.idx <= fn.box.right
                      /\ fn.box.bottom <= fn.price /\ fn.price <= fn.box.top
        IN  /\ fn.method_done => (fn.method <=> inside)
            /\ fn.helper_done => (fn.helper <=> inside)
            /\ (fn.method_done /\ fn.helper_done) => (fn.method <=> fn.helper)

\* C11 witness: both functions were applied to a point on the right and top
\* edges of a zone of more than one bar and price, and reported it inside.
C11_Witness ==
    /\ fn.op = "zone" /\ fn.method_done /\ fn.helper_done
    /\ fn.box.left < fn.box.right /\ fn.box.bottom < fn.box.top
    /\ fn.idx = fn.box.right /\ fn.price = fn.box.top
    /\ fn.method /\ fn.helper

\* C12: when execute_signals has returned, final_balance = cash +
\* total_capital_used and final_pnl = final_balance - initial_capital; and
\* when no signal had positive strength, the ledger is empty, cash is the
\* initial capital, and the summary has 0 trades, 0 wins, 0 losses and a
\* win rate of 0 over a non-zero divisor.
C12_FinalBalanceAndEmptySummary ==
    pc = "done" =>
        /\ agent.final_balance = agent.cash + agent.portfolio.total_capital_used
        /\ agent.final_pnl = agent.final_balance - InitialCapital
        /\ ~strength_seen =>
               /\ agent.trades = <<>>
               /\ agent.cash = InitialCapital
               /\ get_summary(agent).num_trades = 0
               /\ get_summary(agent).wins = 0
               /\ get_summary(agent).losses = 0
               /\ get_summary(agent).win_rate.num = 0
               /\ get_summary(agent).win_rate.den # 0
               /\ get_summary(agent).final_balance = InitialCapital
               /\ get_summary(agent).final_pnl = 0

\* C12 witness: execute_signals returned from a list of two or more signals,
\* none of positive strength, with the forced close enabled.
C12_Witness ==
    /\ pc = "done" /\ ~strength_seen /\ nsignals >= 2 /\ force_close_at_end

\* C13 as stated: after any sequence of add_position and remove_position
\* calls, adding for a held security and removing an absent one included,
\* total_capital_used is the sum of money_allocated over the positions held.
C13_TotalIsSumOfAllocated ==
    agent.portfolio.total_capital_used = SumAllocated(Positions)

\* C14, one call: a position held before the call is, if its security is
\* still held after it, the same position, and a call that neither adds a
\* security nor removes one leaves total_capital_used as it was.
C14_Step ==
    /\ \A i \in 1..Len(Positions) : \A j \in 1..Len(agent'.portfolio.positions) :
           agent'.portfolio.positions[j].security = Positions[i].security
               => agent'.portfolio.positions[j] = Positions[i]
    /\ Len(agent'.portfolio.positions) = Len(Positions)
           => agent'.portfolio.total_capital_used = agent.portfolio.total_capital_used

\* C14 as stated: add_position for a security already held does not replace
\* the existing position and does not increase total_capital_used.
C14_AddFailsOnHeld == [][C14_Step]_vars

\* The direction of a type tag: buy, sell, or neither
Direction(typ) ==
    IF is_buy_signal(typ) THEN "buy" ELSE IF is_sell_signal(typ) THEN "sell" ELSE "none"

\* C15 as stated: the enhanced list has no two signals with the same bar
\* index, price rounded to 6 decimals and direction, however the type tags
\* are spelled, and the one kept is the first of the raw signals with that
\* key.
C15_NoDuplicateByDirection ==
    (fn.op = "process_raw_signals" /\ fn.done) =>
        /\ \A i, j \in 1..Len(fn.enhanced) :
               ( /\ fn.enhanced[i].index = fn.enhanced[j].index
                 /\ Round6(fn.enhanced[i].price) = Round6(fn.enhanced[j].price)
                 /\ Direction(fn.enhanced[i].type) = Direction(fn.enhanced[j].type) )
               => i = j
        /\ \A i \in 1..Len(fn.enhanced) :
               \E k \in 1..Len(fn.raw_signals) :
                   /\ fn.raw_signals[k].index = fn.enhanced[i].index
                   /\ fn.raw_signals[k].price = fn.enhanced[i].price
                   /\ fn.raw_signals[k].type = fn.enhanced[i].type
                   /\ \A h \in 1..(k - 1) :
                          ~( /\ fn.raw_signals[h].price # NoneVal
                             /\ fn.raw_signals[h].index = fn.raw_signals[k].index
                             /\ Round6(fn.raw_signals[h].price) = Round6(fn.raw_signals[k].price)
                             /\ Direction(fn.raw_signals[h].type)
                                    = Direction(fn.raw_signals[k].type) )

\* C16: on a series of fewer than 3 bars, the empty one included, a run of
\* either detector, just constructed, ends without an exception and leaves
\* no zone and no touch signal; and on any series every permanent gap zone
\* has left >= 1, the bar before its creation bar, which is >= 2.
C16_ShortSeriesEmptyOutputs ==
    fn.op = "detectors" =>
        /\ raised = "none"
        /\ (Len(fn.bars) < 3 /\ fn.fvg_runs > 0) => fn.fvg = NewFvg
        /\ (Len(fn.bars) < 3 /\ fn.sonar_runs > 0) =>
               /\ fn.sonar[1].long_boxes = <<>>
               /\ fn.sonar[1].short_boxes = <<>>
               /\ fn.sonar[1].signals = <<>>
        /\ \A i \in 1..Len(fn.fvg.bull_boxes) : fn.fvg.bull_boxes[i].left + 1 >= 2
        /\ \A i \in 1..Len(fn.fvg.bear_boxes) : fn.fvg.bear_boxes[i].left + 1 >= 2

\* C16 witness: both detectors have run on a series of two bars of which the
\* second lies wholly above the first, with touch signals enabled.
C16_Witness ==
    /\ fn.op = "detectors" /\ Len(fn.bars) = 2
    /\ fn.fvg_runs > 0 /\ fn.sonar_runs > 0 /\ fn.fvg_cfg.show_signal
    /\ fn.bars[1].High < fn.bars[2].Low

\* C18 as stated: no momentum detector exists whose mitigation mode is
\* neither the close-based nor the wick-based value, so no scan runs with
\* such a mode.
C18_InvalidModeRejected ==
    (fn.op = "detectors" /\ fn.sonar # <<>>) =>
        fn.sonar[1].OBMitigationType \in {"Close", "Wick"}

\* C17 as stated: a malformed signal (price missing or non-finite, bar
\* index missing) taken next by the loop raises nothing and leaves the agent
\* as the pass over the due exits left it.
C17_MalformedSkipped ==
    pc = "loop" =>
        \A s \in MalformedSignals :
            (/\ SortKey(s.date) >= SortKey(last_date)
             /\ process_pending_exits(agent, df, s.date).raised = "none")
            => loop_body_raising(agent, df, s) = process_pending_exits(agent, df, s.date)

C20_Due ==
    IF pc = "loop"
    THEN IF force_close_at_end
         THEN SortByExitDate(SelectSeq(
                  [i \in 1..Len(Positions) |-> forced_exit(Positions[i], df)],
                  LAMBDA p : exit_due(p, DfIndex(df, DfLen(df) - 1))))
         ELSE <<>>
    ELSE SortByExitDate(SelectSeq(Positions, LAMBDA p : exit_due(p, TimestampMax)))

\* shares * exit price, summed over the long positions of ps
RECURSIVE C20_LongCredit(_)
C20_LongCredit(ps) ==
    IF ps = <<>> THEN 0
    ELSE C20_LongCredit(SubSeq(ps, 1, Len(ps) - 1))
         + (IF LongPosition(ps[Len(ps)])
            THEN ps[Len(ps)].shares * adjust_exit(ps[Len(ps)], df).exit_price
            ELSE 0)

C20_Step ==
    (pc' # pc /\ pc' \in {"done", "finalized"}) =>
        LET finalized == (agent'.total_wins + agent'.total_losses)
                         - (agent.total_wins + agent.total_losses)
            recorded == Len(agent'.trades) - Len(agent.trades)
        IN  /\ agent'.cash = agent.cash + C20_LongCredit(SubSeq(C20_Due, 1, finalized))
            /\ \A j \in 1..recorded :
                   agent'.trades[Len(agent.trades) + j].cash_after
                       = agent.cash + C20_LongCredit(SubSeq(C20_Due, 1, j))

C21_Due ==
    IF pc = "loop" /\ pc' \in {"loop", "raised"}
    THEN SortByExitDate(SelectSeq(Positions, LAMBDA p : exit_due(p, last_date')))
    ELSE C20_Due

Counters(a) ==
    [ winning_streak |-> a.winning_streak, losing_streak |-> a.losing_streak,
      max_winning_streak |-> a.max_winning_streak,
      max_losing_streak |-> a.max_losing_streak,
      total_wins |-> a.total_wins, total_losses |-> a.total_losses ]

\* The counters c after the finalizations of ps in order, as the claim
\* states them
RECURSIVE C21_After(_, _)
C21_After(c, ps) ==
    IF ps = <<>> THEN c
    ELSE LET b == C21_After(c, SubSeq(ps, 1, Len(ps) - 1))
             pnl == ps[Len(ps)].pnl
         IN  IF pnl > 0
             THEN [ winning_streak |-> b.winning_streak + 1, losing_streak |-> 0,
                    max_winning_streak |-> IF b.winning_streak + 1 > b.max_winning_streak
                                           THEN b.winning_streak + 1
                                           ELSE b.max_winning_streak,
                    max_losing_streak |-> b.max_losing_streak,
                    total_wins |-> b.total_wins + 1, total_losses |-> b.total_losses ]
             ELSE [ winning_streak |-> 0, losing_streak |-> b.losing_streak + 1,
                    max_winning_streak |-> b.max_winning_streak,
                    max_losing_streak |-> IF b.losing_streak + 1 > b.max_losing_streak
                                          THEN b.losing_streak + 1
                                          ELSE b.max_losing_streak,
                    total_wins |-> b.total_wins, total_losses |-> b.total_losses + 1 ]

C21_Step ==
    pc # "idle" =>
        LET finalized == (agent'.total_wins + agent'.total_losses)
                         - (agent.total_wins + agent.total_losses)
        IN  /\ finalized \in 0..Len(C21_Due)
            /\ Counters(agent') = C21_After(Counters(agent), SubSeq(C21_Due, 1, finalized))

C21_Streaks ==
    /\ agent.winning_streak = 0 \/ agent.losing_streak = 0
    /\ agent.max_winning_streak >= agent.winning_streak
    /\ agent.max_losing_streak >= agent.losing_streak

C23_Floor(x, y) == x \div y

\* C23: a long position is opened with
\* shares = floor(min(allocation_step * strength, 1.0) * cash / price),
\* reduced to floor(cash / price) if its cost would exceed cash, and is not
\* opened when shares <= 0; the cost debited is at most the cash there was,
\* and cash is never negative after any sequence of openings.
C23_LongSizing ==
    fn.op = "sizing" =>
        /\ fn.agent.cash >= 0
        /\ (fn.signal # <<>> /\ is_long_signal(fn.signal[1].type)) =>
               LET s == fn.signal[1]
                   cash == fn.cash_before
                   pct == IF AllocationStep * s.signalStrength < 100
                          THEN AllocationStep * s.signalStrength ELSE 100
                   first == C23_Floor(pct * cash, 100 * s.price)
                   shares == IF first * s.price > cash THEN C23_Floor(cash, s.price)
                             ELSE first
               IN  /\ fn.agent.cash = cash - shares * s.price
                   /\ shares * s.price <= cash
                   /\ has_position(fn.agent.portfolio, s.symbol) <=> shares > 0
                   /\ shares > 0 =>
                          /\ get_position(fn.agent.portfolio, s.symbol).shares = shares
                          /\ get_position(fn.agent.portfolio, s.symbol).money_allocated
                                 = shares * s.price

\* C23 witness: a long position was opened at the capped allocation
\* (strength above 5) with cash left over, after an earlier opening.
C23_Witness ==
    /\ fn.op = "sizing" /\ fn.opened = 2 /\ fn.signal # <<>>
    /\ is_long_signal(fn.signal[1].type) /\ fn.signal[1].signalStrength > 5
    /\ has_position(fn.agent.portfolio, fn.signal[1].symbol)
    /\ fn.agent.cash > 0 /\ fn.agent.cash < fn.cash_before

\* shares * entry price of the long positions among ps
C24_LongCost(ps) ==
    IF \E p \in ps : LongPosition(p)
    THEN LET p == CHOOSE q \in ps : LongPosition(q) IN p.shares * p.entry_price
    ELSE 0

C24_Step ==
    LET finalized == (agent'.total_wins + agent'.total_losses)
                     - (agent.total_wins + agent.total_losses)
        done == SubSeq(C21_Due, 1, finalized)
        opened == {p \in {agent'.portfolio.positions[i] :
                              i \in 1..Len(agent'.portfolio.positions)} :
                      p \notin PositionSet}
    IN  /\ (pc = "loop" /\ pc' = "loop") =>
               /\ Cardinality(opened) <= 1
               /\ agent'.cash = agent.cash + C20_LongCredit(done) - C24_LongCost(opened)
        /\ (pc \in {"loop", "done"} /\ pc' \in {"done", "finalized"}
               /\ \A i \in 1..Len(done) : ~LongPosition(done[i])) =>
               agent'.cash = agent.cash

C26_Held ==
    /\ pc = "loop" =>
           \A p \in PositionSet : ScanResolved(p) => p.exit_date > last_date
    /\ (pc = "done" /\ ~force_close_at_end) =>
           agent.final_balance = agent.cash + SumAllocated(Positions)

C26_Step ==
    /\ (pc = "loop" /\ pc' = "loop") =>
           LET finalized == (agent'.total_wins + agent'.total_losses)
                            - (agent.total_wins + agent.total_losses)
               done == SubSeq(C21_Due, 1, finalized)
           IN  /\ Len(agent'.trades) = Len(agent.trades) + finalized
               /\ \A j \in 1..finalized :
                      /\ TradeOf(agent'.trades[Len(agent.trades) + j], done[j])
                      /\ done[j].exit_date <= last_date'
                      /\ done[j].entry_date < last_date'
    /\ (pc = "loop" /\ pc' = "done" /\ ~force_close_at_end) =>
           /\ agent'.portfolio = agent.portfolio
           /\ agent'.trades = agent.trades
           /\ agent'.cash = agent.cash

C27_Stored == SelectSeq(Positions, LAMBDA p : p.exit_set /\ p.exit_date # NoneVal)

C27_Step ==
    (pc = "loop" /\ pc' = "loop") =>
        LET n0 == Len(agent.trades)
            new == SubSeq(agent'.trades, n0 + 1, Len(agent'.trades))
            taken == IF last_date' = NoneVal THEN C27_Stored
                     ELSE SelectSeq(C27_Stored, LAMBDA p : p.exit_date <= last_date')
        IN  /\ last_date' = NoneVal => last_date = NoneVal
            /\ SubSeq(agent'.trades, 1, n0) = agent.trades
            /\ Len(new) = Len(taken)
            /\ \A i \in 1..Len(taken) : \E j \in 1..Len(new) : TradeOf(new[j], taken[i])
            /\ \A j \in 1..Len(new) : \A k \in j..Len(new) :
                    new[j].exit_date <= new[k].exit_date
            /\ \A i \in 1..Len(C27_Stored) :
                    (last_date' # NoneVal /\ C27_Stored[i].exit_date > last_date')
                        => \E k \in 1..Len(agent'.portfolio.positions) :
                               agent'.portfolio.positions[k] = C27_Stored[i]

C28_New ==
    IF Len(agent'.trades) >= Len(agent.trades)
    THEN SubSeq(agent'.trades, Len(agent.trades) + 1, Len(agent'.trades))
    ELSE <<>>

C28_Ordered ==
    \A j \in 1..Len(agent.trades) : \A k \in j..Len(agent.trades) :
        agent.trades[j].exit_date <= agent.trades[k].exit_date

\* Every trade the step appends has its exit date at or before the date of
\* the latest signal the loop has reached
C28_Reached ==
    \A j \in 1..Len(C28_New) :
        last_date' # NoneVal /\ C28_New[j].exit_date <= last_date'

C29_MatchingOnly(zones, is_buy) ==
    IF is_buy THEN [zones EXCEPT !.bear_boxes = <<>>, !.short_boxes = <<>>]
    ELSE [zones EXCEPT !.bull_boxes = <<>>, !.long_boxes = <<>>]

\* C29: the flags, the alpha and the strength of an enhanced signal are
\* those of the zone lists of its own direction alone; a point in no zone of
\* its own direction has strength 0; the alpha recorded is that of the first
\* gap zone of the list that contains the point.
C29_MatchingDirectionOnly ==
    (fn.op = "process_raw_signals" /\ fn.done) =>
        LET r == fn.raw_signals[1]
            is_buy == r.type \in {"bullish", "buy"}
            gaps == IF is_buy THEN fn.zones.bull_boxes ELSE fn.zones.bear_boxes
            moms == IF is_buy THEN fn.zones.long_boxes ELSE fn.zones.short_boxes
            In(b) == /\ b.left <= r.index /\ r.index <= b.right
                     /\ b.bottom <= r.price /\ r.price <= b.top
            holding == {k \in 1..Len(gaps) : In(gaps[k])}
            e == fn.enhanced[1]
        IN  /\ Len(fn.enhanced) = 1
            /\ e.inside_fvg = (holding # {})
            /\ e.inside_sonar = (\E k \in 1..Len(moms) : In(moms[k]))
            /\ holding = {} => e.fvg_alpha = NoneVal
            /\ holding # {} =>
                   \E k \in holding : /\ \A j \in holding : k <= j
                                       /\ e.fvg_alpha = gaps[k].alpha
            /\ (~e.inside_fvg /\ ~e.inside_sonar) => e.signalStrength = 0
            /\ fn.enhanced = process_raw_signals(fn.raw_signals, df, "A",
                                                 C29_MatchingOnly(fn.zones, is_buy))

\* A buy signal at a point inside a bearish gap zone and a bearish momentum
\* zone and inside no bullish zone: strength 0
C29_Witness ==
    /\ fn.op = "process_raw_signals" /\ fn.done
    /\ Len(fn.raw_signals) = 1 /\ Len(fn.enhanced) = 1
    /\ fn.raw_signals[1].type = "buy"
    /\ check_fvg_inclusion(fn.raw_signals[1].index, fn.raw_signals[1].price,
                           fn.zones.bear_boxes)[1]
    /\ check_sonar_inclusion(fn.raw_signals[1].index, fn.raw_signals[1].price,
                             fn.zones.short_boxes)
    /\ fn.zones.bull_boxes # <<>>
    /\ fn.enhanced[1].signalStrength = 0

\* A capacity no list of the model reaches
C30_NoCap == MaxDetBars + 2

\* The lists of the bar being processed after break removal and nested
\* pruning, before eviction
C30_Kept ==
    fvg_bar(fn.fvg, fn.bars, fn.idx, DfLen(fn.bars),
            [fn.fvg_cfg EXCEPT !.box_amount = C30_NoCap])

\* after is kept without its first zones, which were created before all that
\* remain, and is shorter than the capacity
C30_Fifo(kept, after, box_amount) ==
    LET gone == Len(kept) - Len(after)
    IN  /\ Len(after) < box_amount
        /\ Len(after) = Min(Len(kept), box_amount - 1)
        /\ after = SubSeq(kept, gone + 1, Len(kept))
        /\ \A i \in 1..gone : \A j \in (gone + 1)..Len(kept) :
               kept[i].left < kept[j].left

C30_Step ==
    (fn.op = "fvg_bars" /\ fn'.idx = fn.idx + 1) =>
        /\ C30_Fifo(C30_Kept.bull_boxes, fn'.fvg.bull_boxes, fn.fvg_cfg.box_amount)
        /\ C30_Fifo(C30_Kept.bear_boxes, fn'.fvg.bear_boxes, fn.fvg_cfg.box_amount)

\* C30: at the end of every bar each direction's list of permanent zones is
\* shorter than box_amount, and what the bar evicted are the zones created
\* first among those left after the bar's break removal and nested pruning.
C30_CapacityFifo == [][C30_Step]_vars

\* A bar evicted the older of two bullish zones: the zone held at the start
\* of the bar was neither broken nor nested at that bar, and the zone the
\* bar created is the only one left
C30_Witness ==
    /\ fn.op = "fvg_bars" /\ fn.idx > 0
    /\ fn.fvg_cfg.box_amount = 2
    /\ Len(fn.prev.bull_boxes) = 1 /\ Len(fn.fvg.bull_boxes) = 1
    /\ fn.fvg.bull_boxes[1].left = fn.idx - 2
    /\ fn.prev.bull_boxes[1].left < fn.fvg.bull_boxes[1].left
    /\ High(fn.bars, fn.idx - 1) >= fn.prev.bull_boxes[1].bottom
    /\ fn.prev.bull_boxes[1].top = fn.fvg.bull_boxes[1].top

\* The lists the maintenance of the bar being processed starts from: the
\* lists held at the start of the bar and the zone the bar creates
C31_MidBull ==
    fn.fvg.bull_boxes \o
    (IF IsBullGap(fn.bars, fn.idx, DfLen(fn.bars), fn.fvg_cfg)
     THEN <<BullBox(fn.bars, fn.idx, DfLen(fn.bars))>> ELSE <<>>)

C31_MidBear ==
    fn.fvg.bear_boxes \o
    (IF IsBearGap(fn.bars, fn.idx, DfLen(fn.bars), fn.fvg_cfg)
     THEN <<BearBox(fn.bars, fn.idx, DfLen(fn.bars))>> ELSE <<>>)

\* The zones of a list whose band holds the top of another zone of the list
C31_Nested(list) ==
    {i \in 1..Len(list) :
        \E j \in 1..Len(list) :
            j # i /\ list[j].top < list[i].top /\ list[j].top > list[i].bottom}

\* after is what the bar leaves of mid, Breaks(z) the break test of the bar
C31_Broken(mid, after, Breaks(_), cfg) ==
    /\ \A k \in 1..Len(after) : after[k].broken => cfg.show_broken
    /\ ~cfg.show_broken => \A k \in 1..Len(after) : ~Breaks(after[k])
    /\ cfg.show_broken =>
          /\ \A k \in 1..Len(after) : Breaks(after[k]) => after[k].broken
          /\ Len(after) = Min(cfg.box_amount - 1,
                              Len(mid) - Cardinality(C31_Nested(mid)))

C31_Step ==
    (fn.op = "fvg_bars" /\ fn'.idx = fn.idx + 1) =>
        /\ C31_Broken(C31_MidBull, fn'.fvg.bull_boxes,
                      LAMBDA z : High(fn.bars, fn.idx) < z.bottom, fn.fvg_cfg)
        /\ C31_Broken(C31_MidBear, fn'.fvg.bear_boxes,
                      LAMBDA z : Low(fn.bars, fn.idx) > z.top, fn.fvg_cfg)

\* C31: a bullish zone breaks on a bar whose high is below its bottom, a
\* bearish one on a bar whose low is above its top.  With show_broken off no
\* zone the bar breaks and no zone marked broken is in the lists at the end
\* of the bar; with show_broken on the break takes nothing out of the lists
\* and every zone the bar breaks is marked broken.
C31_BreakRemovesOrMarks == [][C31_Step]_vars

\* With show_broken off, a bullish zone held at the start of the bar last
\* processed had its bottom above that bar's high and is gone
C31_Witness ==
    /\ fn.op = "fvg_bars" /\ fn.idx > 0
    /\ ~fn.fvg_cfg.show_broken
    /\ \E i \in 1..Len(fn.prev.bull_boxes) :
          /\ High(fn.bars, fn.idx - 1) < fn.prev.bull_boxes[i].bottom
          /\ \A k \in 1..Len(fn.fvg.bull_boxes) :
                 fn.fvg.bull_boxes[k].left # fn.prev.bull_boxes[i].left

\* Zone a is not in the list: zones of one list differ in their left bar
C32_Gone(a, list) == \A k \in 1..Len(list) : list[k].left # a.left

\* On a bar that breaks no zone of mid, pruning sees mid: every zone of mid
\* whose top is strictly inside the band of another zone of mid is out of
\* after
C32_Pruned(mid, after, Breaks(_)) ==
    (\A i \in 1..Len(mid) : ~Breaks(mid[i])) =>
        \A i \in 1..Len(mid) : \A j \in 1..Len(mid) :
            (j # i /\ mid[i].top < mid[j].top /\ mid[i].top > mid[j].bottom)
                => C32_Gone(mid[i], after)

C32_Step ==
    (fn.op = "fvg_bars" /\ fn'.idx = fn.idx + 1) =>
        /\ C32_Pruned(C31_MidBull, fn'.fvg.bull_boxes,
                      LAMBDA z : High(fn.bars, fn.idx) < z.bottom)
        /\ C32_Pruned(C31_MidBear, fn'.fvg.bear_boxes,
                      LAMBDA z : Low(fn.bars, fn.idx) > z.top)

\* C32: on every bar and per direction, a zone A whose top lies strictly
\* between the bottom and the top of another zone B of the list is removed
\* by the bar's nested pruning.
C32_NestedZoneRemoved == [][C32_Step]_vars

\* The touches of one direction at the bar being processed: one per zone
\* of mid that meets Crossed, at the bar before, at that bar's price
C33_Touches(mid, Crossed(_), price, type) ==
    [k \in 1..Len(SelectSeq(mid, Crossed)) |->
        [index |-> fn.idx - 1, price |-> price, type |-> type]]

C33_Expected ==
    IF fn.fvg_cfg.show_signal /\ fn.idx >= 1
    THEN C33_Touches(C31_MidBull,
                     LAMBDA z : /\ Low(fn.bars, fn.idx) > z.top
                                /\ z.top >= Low(fn.bars, fn.idx - 1)
                                /\ Len(C31_MidBull) = Len(fn.fvg.bull_boxes),
                     Low(fn.bars, fn.idx - 1), "bullish")
         \o
         C33_Touches(C31_MidBear,
                     LAMBDA z : /\ High(fn.bars, fn.idx) < z.bottom
                                /\ z.bottom <= High(fn.bars, fn.idx - 1)
                                /\ Len(C31_MidBear) = Len(fn.fvg.bear_boxes),
                     High(fn.bars, fn.idx - 1), "bearish")
    ELSE <<>>

C33_Step ==
    (fn.op = "fvg_bars" /\ fn'.idx = fn.idx + 1) =>
        fn'.fvg.signals = fn.fvg.signals \o C33_Expected

\* C33: with show_signal on, bar i >= 1 emits one bullish touch (i-1,
\* low[i-1]) for each bullish zone of the list with low[i] > top >= low[i-1]
\* unless bar i created a bullish gap, and one bearish touch (i-1, high[i-1])
\* for each bearish zone with high[i] < bottom <= high[i-1] unless bar i
\* created a bearish gap, and nothing else; with show_signal off no bar
\* emits a touch.
C33_TouchExactlyWhenCrossed == [][C33_Step]_vars

\* A bullish touch was emitted by the bar last processed
C33_Witness ==
    /\ fn.op = "fvg_bars" /\ fn.idx >= 2
    /\ fn.fvg_cfg.show_signal
    /\ Len(fn.fvg.signals) > Len(fn.prev.signals)
    /\ fn.fvg.signals[Len(fn.fvg.signals)].type = "bullish"
    /\ fn.fvg.signals[Len(fn.fvg.signals)].index = fn.idx - 2
    /\ fn.fvg.signals[Len(fn.fvg.signals)].price = Low(fn.bars, fn.idx - 2)

\* The series, its length and the bar of the call of run in progress
C34_Bars == fn.series[fn.run]
C34_Last == DfLen(C34_Bars) - 1

\* z is in after and was not in before: the bar created it
C34_Created(z, before) ==
    \A k \in 1..Len(before) :
        [z EXCEPT !.broken = FALSE] # [before[k] EXCEPT !.broken = FALSE]

C34_BullRule(z, i) ==
    /\ i >= 2
    /\ (C34_Last - i) < fn.fvg_cfg.lookback
    /\ High(C34_Bars, i - 2) < Low(C34_Bars, i)
    /\ High(C34_Bars, i - 2) < High(C34_Bars, i - 1)
    /\ Low(C34_Bars, i - 2) < Low(C34_Bars, i)
    /\ (Low(C34_Bars, i) - High(C34_Bars, i - 2)) * 200
           > fn.fvg_cfg.filter_gap_x2 * Low(C34_Bars, i)
    /\ z.top = High(C34_Bars, i - 2)
    /\ z.bottom = z.top - Atr(C34_Bars, i)
    /\ z.left = i - 1
    /\ z.right = C34_Last

C34_BearRule(z, i) ==
    /\ i >= 2
    /\ (C34_Last - i) < fn.fvg_cfg.lookback
    /\ Low(C34_Bars, i - 2) > High(C34_Bars, i)
    /\ Low(C34_Bars, i - 2) > Low(C34_Bars, i - 1)
    /\ High(C34_Bars, i - 2) > High(C34_Bars, i)
    /\ (Low(C34_Bars, i - 2) - High(C34_Bars, i)) * 200
           > fn.fvg_cfg.filter_gap_x2 * Low(C34_Bars, i - 2)
    /\ z.bottom = Low(C34_Bars, i - 2)
    /\ z.top = z.bottom + Atr(C34_Bars, i)
    /\ z.left = i - 1
    /\ z.right = C34_Last

C34_Step ==
    (fn.op = "fvg_reuse" /\ fn'.run = fn.run /\ fn'.idx = fn.idx + 1) =>
        /\ \A k \in 1..Len(fn'.fvg.bull_boxes) :
               C34_Created(fn'.fvg.bull_boxes[k], fn.fvg.bull_boxes)
                   => C34_BullRule(fn'.fvg.bull_boxes[k], fn.idx)
        /\ \A k \in 1..Len(fn'.fvg.bear_boxes) :
               C34_Created(fn'.fvg.bear_boxes[k], fn.fvg.bear_boxes)
                   => C34_BearRule(fn'.fvg.bear_boxes[k], fn.idx)

C34_Zones == fn.fvg.bull_boxes \o fn.fvg.bear_boxes

C34_TopBottom ==
    fn.op = "fvg_reuse" => \A k \in 1..Len(C34_Zones) : C34_Zones[k].top >= C34_Zones[k].bottom

C34_RightLeft ==
    fn.op = "fvg_reuse" => \A k \in 1..Len(C34_Zones) : C34_Zones[k].right >= C34_Zones[k].left

C35_SecondRunSameAsFirst ==
    (fn.op = "fvg_reuse" /\ fn.run = 3 /\ fn.series[1] = fn.series[2]) =>
        /\ fn.fvg.bull_boxes = fn.first.bull_boxes
        /\ fn.fvg.bear_boxes = fn.first.bear_boxes
        /\ fn.fvg.temp_boxes = fn.first.temp_boxes
        /\ fn.fvg.signals = fn.first.signals

C36_Live(sn) ==
    {sn.short_boxes[k].created_at : k \in 1..Len(sn.short_boxes)}
        \cup {sn.long_boxes[k].created_at : k \in 1..Len(sn.long_boxes)}

C36_Suppressed ==
    (fn.idx - 1) \in fn.created =>
        \A j \in C36_Live(fn.prev) : (fn.idx - 1) - j > 5

C36_LiveApart(sn) ==
    /\ \A i \in C36_Live(sn) : \A j \in C36_Live(sn) : i > j => i - j > 5
    /\ Cardinality(C36_Live(sn)) = Len(sn.short_boxes) + Len(sn.long_boxes)

C37_Bar == fn.idx - 1

C37_Triggered(k) ==
    /\ fn.op = "sonar_bars"
    /\ C37_Bar >= 1
    /\ detect_crosses(fn.prev, fn.bars, C37_Bar, FALSE, FALSE)[k]
    /\ \A j \in C36_Live(fn.prev) : C37_Bar - j > 5

\* The bars at offsets 4..15 back from the bar, green ones or red ones
C37_Candidates(green) ==
    { b \in 0..C37_Bar :
        /\ C37_Bar - b \in 4..15
        /\ IF green THEN Close(fn.bars, b) > Open(fn.bars, b)
                    ELSE Close(fn.bars, b) < Open(fn.bars, b) }

C37_Nearest(green) ==
    CHOOSE b \in C37_Candidates(green) : \A c \in C37_Candidates(green) : c <= b

C37_Zone(green, box_type) ==
    [ left |-> C37_Nearest(green), right |-> DfLen(fn.bars) - 1,
      top |-> High(fn.bars, C37_Nearest(green)),
      bottom |-> Low(fn.bars, C37_Nearest(green)),
      box_type |-> box_type, created_at |-> C37_Bar ]

C37_Anchored(before, after, green, box_type) ==
    IF C37_Candidates(green) = {} THEN after = before
    ELSE after = Append(before, C37_Zone(green, box_type))

\* C37: a bearish trigger that passes the spacing test anchors the bearish
\* zone to the nearest bar at offsets 4..15 with close < open (red), top and
\* bottom that bar's high and low, left that bar, right the last index,
\* createdAt the trigger bar; a bullish trigger does so with the nearest bar
\* with close > open (green); no such bar in the window, no zone.
C37_BearishAnchorsRed ==
    /\ C37_Triggered(1) =>
           C37_Anchored(fn.prev.short_boxes, fn.mid.short_boxes, FALSE, "bearish")
    /\ C37_Triggered(2) =>
           C37_Anchored(fn.prev.long_boxes, fn.mid.long_boxes, TRUE, "bullish")

\* C37, with the colours the other way round: the bearish zone is anchored to
\* the nearest bar with close > open (green), the bullish zone to the nearest
\* bar with close < open (red); the rest as stated.
C37_BearishAnchorsGreen ==
    /\ C37_Triggered(1) =>
           C37_Anchored(fn.prev.short_boxes, fn.mid.short_boxes, TRUE, "bearish")
    /\ C37_Triggered(2) =>
           C37_Anchored(fn.prev.long_boxes, fn.mid.long_boxes, FALSE, "bullish")

\* A bearish zone was created whose anchor is not the bar four back
C37_Witness ==
    /\ C37_Triggered(1)
    /\ Len(fn.mid.short_boxes) = Len(fn.prev.short_boxes) + 1
    /\ fn.mid.short_boxes[Len(fn.mid.short_boxes)].left < C37_Bar - 4

\* A trigger that passes the spacing test finds no bar of its colour
C37_EmptyWindow ==
    \/ C37_Triggered(1) /\ C37_Candidates(TRUE) = {}
    \/ C37_Triggered(2) /\ C37_Candidates(FALSE) = {}

\* Whether the bar the last step processed mitigates a zone
C38_BearMitigated(z) ==
    IF fn.sonar.OBMitigationType = "Close"
    THEN C37_Bar >= 1 /\ Close(fn.bars, C37_Bar - 1) > z.top
    ELSE High(fn.bars, C37_Bar) > z.top

C38_BullMitigated(z) ==
    IF fn.sonar.OBMitigationType = "Close"
    THEN C37_Bar >= 1 /\ Close(fn.bars, C37_Bar - 1) < z.bottom
    ELSE Low(fn.bars, C37_Bar) < z.bottom

C38_BearKept(z) == ~C38_BearMitigated(z)

C38_BullKept(z) == ~C38_BullMitigated(z)

C38_SellTouched(z) ==
    C38_BearKept(z) /\ High(fn.bars, C37_Bar) > z.bottom /\ fn.sonar.sell_alert

C38_BuyTouched(z) ==
    C38_BullKept(z) /\ Low(fn.bars, C37_Bar) < z.top /\ fn.sonar.buy_alert

C38_Repeat(sig, k) == [i \in 1..k |-> sig]

\* C38: the pass of a bar removes exactly the bearish zones whose mitigation
\* value (close[i-1] in close mode, high[i] in wick mode) exceeds their top
\* and keeps the others in order; it appends one sell touch (i, high[i]) for
\* every kept zone with high[i] > bottom when sell alerts are on, and nothing
\* for a removed zone; every zone of the list is handled exactly once. The
\* bullish list mirrors with value < bottom, low[i] < top and buy touches.
C38_MitigateOrTouch ==
    (fn.op = "sonar_bars" /\ fn.idx >= 1) =>
        /\ fn.sonar.short_boxes = SelectSeq(fn.mid.short_boxes, C38_BearKept)
        /\ fn.sonar.long_boxes = SelectSeq(fn.mid.long_boxes, C38_BullKept)
        /\ fn.sonar.signals =
               fn.prev.signals
                   \o C38_Repeat(TouchSignal(C37_Bar, High(fn.bars, C37_Bar), "sell"),
                                 Len(SelectSeq(fn.mid.short_boxes, C38_SellTouched)))
                   \o C38_Repeat(TouchSignal(C37_Bar, Low(fn.bars, C37_Bar), "buy"),
                                 Len(SelectSeq(fn.mid.long_boxes, C38_BuyTouched)))

\* Of two bearish zones one pass removed the later one and the earlier one
\* emitted its touch
C38_Witness ==
    /\ fn.op = "sonar_bars"
    /\ Len(fn.mid.short_boxes) = 2
    /\ fn.sonar.short_boxes = <<fn.mid.short_boxes[1]>>
    /\ Len(fn.sonar.signals) = Len(fn.prev.signals) + 1

\* One pass removed two bearish zones
C38_BothRemoved ==
    /\ fn.op = "sonar_bars"
    /\ Len(fn.mid.short_boxes) = 2
    /\ fn.sonar.short_boxes = <<>>

\* The signals the bar last processed appended, of one type
C39_Appended(before, after, type) ==
    SelectSeq(SubSeq(after, Len(before) + 1, Len(after)), LAMBDA g : g.type = type)

\* The zones created before the bar last processed that meet the gap
\* detector's touch test at that bar
C39_GapBullCrossed(z) ==
    /\ C37_Bar >= 1
    /\ Low(fn.bars, C37_Bar) > z.top
    /\ z.top >= Low(fn.bars, C37_Bar - 1)

C39_GapBearCrossed(z) ==
    /\ C37_Bar >= 1
    /\ High(fn.bars, C37_Bar) < z.bottom
    /\ z.bottom <= High(fn.bars, C37_Bar - 1)

\* The gap detector: every touch of a bar answers to a zone that was in the
\* list before the bar, and a bar that creates a zone of a direction emits
\* no touch of that direction
C39_GapLaterOnly ==
    (fn.op = "fvg_bars" /\ fn.idx >= 1) =>
        /\ Len(C39_Appended(fn.prev.signals, fn.fvg.signals, "bullish"))
               <= Len(SelectSeq(fn.prev.bull_boxes, C39_GapBullCrossed))
        /\ Len(C39_Appended(fn.prev.signals, fn.fvg.signals, "bearish"))
               <= Len(SelectSeq(fn.prev.bear_boxes, C39_GapBearCrossed))
        /\ IsBullGap(fn.bars, C37_Bar, DfLen(fn.bars), fn.fvg_cfg) =>
               C39_Appended(fn.prev.signals, fn.fvg.signals, "bullish") = <<>>
        /\ IsBearGap(fn.bars, C37_Bar, DfLen(fn.bars), fn.fvg_cfg) =>
               C39_Appended(fn.prev.signals, fn.fvg.signals, "bearish") = <<>>

C39_Earlier(z) == z.created_at < C37_Bar

C39_SellEarlier(z) == C38_SellTouched(z) /\ C39_Earlier(z)

C39_BuyEarlier(z) == C38_BuyTouched(z) /\ C39_Earlier(z)

\* The momentum detector: the touches of a bar are as many as the touched
\* zones created on an earlier bar
C39_SonarLaterOnly ==
    (fn.op = "sonar_bars" /\ fn.idx >= 1) =>
        /\ Len(C39_Appended(fn.prev.signals, fn.sonar.signals, "sell"))
               = Len(SelectSeq(fn.mid.short_boxes, C39_SellEarlier))
        /\ Len(C39_Appended(fn.prev.signals, fn.sonar.signals, "buy"))
               = Len(SelectSeq(fn.mid.long_boxes, C39_BuyEarlier))

\* The momentum detector: the touches of a bar are as many as the touched
\* zones of the lists, the zone the bar created included
C39_SonarCreationBarToo ==
    (fn.op = "sonar_bars" /\ fn.idx >= 1) =>
        /\ Len(C39_Appended(fn.prev.signals, fn.sonar.signals, "sell"))
               = Len(SelectSeq(fn.mid.short_boxes, C38_SellTouched))
        /\ Len(C39_Appended(fn.prev.signals, fn.sonar.signals, "buy"))
               = Len(SelectSeq(fn.mid.long_boxes, C38_BuyTouched))

\* C39: neither detector emits a touch for a zone on the bar that created
\* it; every touch answers to a zone created on an earlier bar.
C39_NoTouchOnCreationBar == C39_GapLaterOnly /\ C39_SonarLaterOnly

\* C39, for the gap detector only: the gap detector emits no touch for a zone
\* on the bar that created it; the momentum detector processes the zone it
\* has just created with the others and emits its touch on the creation bar
\* when the zone is touched and not mitigated.
C39_GapOnlyLaterBars == C39_GapLaterOnly /\ C39_SonarCreationBarToo

\* The momentum detector created a bearish zone and the same bar emitted its
\* sell touch
C39_Witness ==
    /\ fn.op = "sonar_bars"
    /\ Len(fn.mid.short_boxes) = Len(fn.prev.short_boxes) + 1
    /\ fn.prev.short_boxes = <<>>
    /\ Len(fn.sonar.signals) = Len(fn.prev.signals) + 1

\* The gap detector created a bullish zone that meets the touch test on its
\* creation bar, and the bar emitted nothing
C39_GapCreatedAndCrossed ==
    /\ fn.op = "fvg_bars"
    /\ fn.idx >= 1
    /\ fn.fvg_cfg.show_signal
    /\ IsBullGap(fn.bars, C37_Bar, DfLen(fn.bars), fn.fvg_cfg)
    /\ C39_GapBullCrossed(BullBox(fn.bars, C37_Bar, DfLen(fn.bars)))
    /\ fn.fvg.signals = fn.prev.signals

\* The orders in which the loads of a set of files can complete
C40_Orders(files) ==
    {o \in [1..Cardinality(files) -> files] :
        \A i \in DOMAIN o : \A j \in DOMAIN o : i # j => o[i] # o[j]}

\* The files that went into the batch are the ones whose load yields rows:
\* a failed or empty load removes that file and no other
C40_OnlyFailedRemoved ==
    /\ {fn.loaded[i] : i \in 1..Len(fn.loaded)} = Loadable(fn.files)
    /\ Len(fn.loaded) = Cardinality(Loadable(fn.files))

\* Whatever the order of completion, the merged series, the signals and the
\* ledger are the ones of this run
C40_SameInEveryOrder ==
    \A o \in C40_Orders(Loadable(fn.files)) : run_backtest(o) = fn.out

\* Two files of one security that start on the same day and differ on a day
\* they share
C40_Conflict(f, g) ==
    /\ f.sec = g.sec
    /\ MinDate(f.rows) = MinDate(g.rows)
    /\ \E i \in 1..Len(f.rows) : \E j \in 1..Len(g.rows) :
           f.rows[i].date = g.rows[j].date /\ f.rows[i].bar # g.rows[j].bar

C40_NoConflict ==
    \A f \in Loadable(fn.files) : \A g \in Loadable(fn.files) : ~C40_Conflict(f, g)

====
